---- MODULE Spec2Model ----
(***************************************************************************)
(* Scriptor Local: the persistent job queue (Database, jobs table) and the *)
(* batch runner (BatchProcessor.run_batch / _process_job) that drains it.  *)
(*                                                                         *)
(* The program is one asyncio event loop.  Coroutines interleave only at   *)
(* their await points, and every await in run_batch is a store call on the *)
(* one shared aiosqlite connection, whose statements run one at a time.    *)
(* A step of the model is therefore one store statement together with the  *)
(* synchronous code of the coroutine around it.                            *)
(***************************************************************************)
EXTENDS Integers, Sequences, FiniteSets, TLC

\* ------------------------------------------------------------------ bounds
MaxJobs == 2
NumCalls == 2
MaxCands == 3
MaxDim == 2
MaxChunks == 34

\* ------------------------------------------------------------- constants
\* Optional values: None is the empty sequence, a value v is <<v>>.
None == <<>>
Some(v) == <<v>>

\* A NULL column of a table (jobs: error, started_at, finished_at).
NULL == <<>>

\* datetime.utcnow().isoformat() where it stamps started_at, finished_at or
\* indexed_at: the program reads these columns back only as set or NULL.
utcnow == "utcnow"

Calls == 1..NumCalls
BPs == {1, 2}

\* The requests that create a job row: the three of enqueue_paper_jobs, and
\* manual /jobs/enqueue requests (any type string, any priority, any paper id).
StandardJobs ==
    { [paper_id |-> "p1", type |-> "EXTRACT_TEXT", priority |-> 10],
      [paper_id |-> "p1", type |-> "EXTRACT_DOI", priority |-> 5],
      [paper_id |-> "p1", type |-> "EMBED", priority |-> 1] }

ManualJobs ==
    { [paper_id |-> "p1", type |-> "OCR", priority |-> 10] }

JobInputs == StandardJobs \cup ManualJobs

\* (mutant) the priorities of the first and the last stage are exchanged.
PaperJobsSwapped ==
    << [paper_id |-> "p1", type |-> "EXTRACT_TEXT", priority |-> 1],
       [paper_id |-> "p1", type |-> "EXTRACT_DOI", priority |-> 5],
       [paper_id |-> "p1", type |-> "EMBED", priority |-> 10] >>

\* enqueue_paper_jobs lines 226-230: the three jobs, in the order of the list.
PaperJobs ==
    << [paper_id |-> "p1", type |-> "EXTRACT_TEXT", priority |-> 10],
       [paper_id |-> "p1", type |-> "EXTRACT_DOI", priority |-> 5],
       [paper_id |-> "p1", type |-> "EMBED", priority |-> 1] >>

VARIABLES
    jobs,          \* the jobs table: a sequence of rows in rowid order
    papers,        \* the papers table: paper id -> row
    chunks,        \* the chunks table: a set of rows
    embeddings,    \* the embeddings table: a set of rows, one per chunk_id
    uuid,          \* how many times the text extractor has drawn chunk ids
    pdfs,          \* the PDF files: paper id -> what the extractors find in it
    clock,         \* datetime.utcnow(), as a counter that never goes back
    running,       \* BatchProcessor._running, per BatchProcessor
    current_job,   \* BatchProcessor._current_job, per BatchProcessor
    observer,      \* BatchProcessor._progress_callback, per BatchProcessor
    bpOf,          \* the BatchProcessor each run_batch call is made on
    pc,            \* where each run_batch call stands
    loc,           \* the locals of each run_batch call
    ret,           \* what each run_batch call returned last
    hist,          \* history: what each call has done to the job rows
    search,        \* the last call of EmbeddingService.search / normalize_scores
    reply,         \* the last response of the API to a request
    model,         \* EmbeddingService._model, and how often it was constructed
    annotations,   \* the annotations table: a set of rows
    config         \* the configuration: auth_token and gemini_api_key

vars == <<jobs, papers, chunks, embeddings, uuid, pdfs, clock, running,
          current_job, observer, bpOf, pc, loc, ret, hist, search, reply,
          model, annotations, config>>

\* ------------------------------------------------------- the jobs table
JobStatuses == {"pending", "running", "completed", "failed"}

\* Database.add_job: INSERT one row, status 'pending', created_at = now; the
\* columns error, started_at and finished_at are left NULL.  The row's rowid
\* is its position in the sequence, and stands for its (uuid) id.
add_job(js, job, now) ==
    Append(js, [paper_id    |-> job.paper_id,
                type        |-> job.type,
                status      |-> "pending",
                priority    |-> job.priority,
                error       |-> NULL,
                created_at  |-> now,
                started_at  |-> NULL,
                finished_at |-> NULL])

allowed_fields == {"status", "error", "started_at", "finished_at"}

\* Database.update_job: UPDATE jobs SET <the allowed fields given> WHERE id = ?
\* There is no condition on the row's current status.
update_job(js, job_id, updates) ==
    [i \in DOMAIN js |->
        IF i = job_id
        THEN [f \in DOMAIN js[i] |->
                IF f \in (DOMAIN updates) \cap allowed_fields
                THEN updates[f] ELSE js[i][f]]
        ELSE js[i]]

\* (mutant) failed rows are selected again: an automatic retry.
PendingFilterRetry(js, i) == js[i].status \in {"pending", "failed"}

\* The rows the query of get_pending_jobs selects: WHERE status = 'pending'.
PendingFilter(js, i) == js[i].status = "pending"

\* (mutant) ORDER BY priority ASC, created_at ASC.
OrderBeforeAsc(js, a, b) ==
    \/ js[a].priority < js[b].priority
    \/ /\ js[a].priority = js[b].priority
       /\ js[a].created_at < js[b].created_at
    \/ /\ js[a].priority = js[b].priority
       /\ js[a].created_at = js[b].created_at
       /\ a < b

\* ORDER BY priority DESC, created_at ASC.  Rows equal in both keys come out
\* in rowid order: the scan of idx_jobs_status yields them in that order and
\* SQLite's sorter keeps it.
OrderBefore(js, a, b) ==
    \/ js[a].priority > js[b].priority
    \/ /\ js[a].priority = js[b].priority
       /\ js[a].created_at < js[b].created_at
    \/ /\ js[a].priority = js[b].priority
       /\ js[a].created_at = js[b].created_at
       /\ a < b

RECURSIVE order_by(_, _)
order_by(js, S) ==
    IF S = {} THEN <<>>
    ELSE LET m == CHOOSE a \in S : \A b \in S \ {a} : OrderBefore(js, a, b)
         IN  <<m>> \o order_by(js, S \ {m})

\* Database.get_pending_jobs: the ids of the rows it returns, in order.  (It
\* returns copies of the rows; run_batch reads only id, type and paper_id of
\* the first, and no statement changes those columns.)
get_pending_jobs(js) ==
    order_by(js, {i \in DOMAIN js : PendingFilter(js, i)})

\* Database.get_paper: the row, or None.
NoPaper == [status |-> "None"]
get_paper(ps, paper_id) ==
    IF paper_id \in DOMAIN ps THEN ps[paper_id] ELSE NoPaper

paper_allowed_fields ==
    {"title", "authors", "year", "doi", "indexed_at", "embeddings_ready",
     "status", "collection", "metadata"}

\* Database.update_paper: UPDATE papers SET <the allowed fields given>
\* WHERE id = ?
update_paper(ps, paper_id, updates) ==
    [p \in DOMAIN ps |->
        IF p = paper_id
        THEN [f \in DOMAIN ps[p] |->
                IF f \in (DOMAIN updates) \cap paper_allowed_fields
                THEN updates[f] ELSE ps[p][f]]
        ELSE ps[p]]

\* -------------------------------------- the chunks and embeddings tables
\* A chunk row is [id, paper_id, chunk_index]; page, bbox and text are left
\* out (chunk_index grows over the pages, so ORDER BY page, chunk_index is
\* the order of chunk_index).

\* (mutant) nothing is deleted: the new chunks are added to the old ones.
delete_chunks_none(cs, paper_id) == cs

\* Database.delete_chunks: DELETE FROM chunks WHERE paper_id = ?
delete_chunks(cs, paper_id) == {r \in cs : r.paper_id # paper_id}

\* Database.add_chunks: INSERT OR REPLACE each chunk, keyed by id.
add_chunks(cs, new) ==
    {r \in cs : \A i \in DOMAIN new : new[i].id # r.id}
        \cup {new[i] : i \in DOMAIN new}

RECURSIVE by_chunk_index(_)
by_chunk_index(S) ==
    IF S = {} THEN <<>>
    ELSE LET m == CHOOSE a \in S :
                     \A b \in S \ {a} : a.chunk_index <= b.chunk_index
         IN  <<m>> \o by_chunk_index(S \ {m})

\* Database.get_chunks: SELECT ... WHERE paper_id = ? ORDER BY page, chunk_index
get_chunks(cs, paper_id) == by_chunk_index({r \in cs : r.paper_id = paper_id})

\* (mutant) a plain INSERT: the row of an earlier pass stays beside the new.
add_embedding_insert(es, chunk_id, job_id) ==
    es \cup {[chunk_id |-> chunk_id, by |-> job_id]}

\* Database.add_embedding: INSERT OR REPLACE, keyed by chunk_id.  A row is
\* [chunk_id, by]: the vector is left out, and by (history) is the job whose
\* embedding pass wrote the row.
add_embedding(es, chunk_id, job_id) ==
    {r \in es : r.chunk_id # chunk_id}
        \cup {[chunk_id |-> chunk_id, by |-> job_id]}

\* ------------------------------------------------------ BatchProcessor
\* (mutant) the guard on the run flag is missing.
IsBusyNever(b) == FALSE

\* run_batch line 52: the guard on the run flag.
IsBusy(b) == running[b]

\* (mutant) the flag is not raised.
RunFlagNotSet == FALSE

\* run_batch line 55: self._running = True.
RunFlagSet == TRUE

BusyResult == [status |-> "busy", error |-> "Batch already running"]
NoResult == [status |-> "none"]
RaisedResult == [status |-> "raised"]

\* (mutant) the errors list is returned as it is, also when empty.
SummaryRawErrors(l) ==
    [status    |-> "completed",
     processed |-> l.processed,
     failed    |-> l.failed,
     errors    |-> Some(l.errors)]

\* run_batch lines 88-93: the summary; "errors if errors else None".
Summary(l) ==
    [status    |-> "completed",
     processed |-> l.processed,
     failed    |-> l.failed,
     errors    |-> IF l.errors = <<>> THEN None ELSE Some(l.errors)]

\* run_batch lines 55-58: the locals of a fresh run; i is the loop variable
\* of _compute_embeddings (line 205) while an embedding pass is under way.
FreshLocals ==
    [job |-> 0, processed |-> 0, failed |-> 0, errors |-> <<>>, e |-> "", i |-> 0]

\* (mutant) the loop is left while one job is still pending.
DrainedEarly(pending) == Len(pending) <= 1

\* run_batch line 64: "if not pending_jobs: break".
Drained(pending) == pending = <<>>

\* (mutant) the last job of the list is taken.
NextJobLast(pending) == pending[Len(pending)]

\* run_batch line 67: job = pending_jobs[0].
NextJob(pending) == Head(pending)

\* _process_job lines 104-107: the update that marks a job running.
RunningUpdates == [status |-> "running", started_at |-> Some(utcnow)]

\* (mutant) the completed row gets no finished_at.
CompletedUpdatesBare == [status |-> "completed"]

\* _process_job lines 131-134: the update that marks a job completed.
CompletedUpdates == [status |-> "completed", finished_at |-> Some(utcnow)]

\* run_batch lines 75-79: the update that marks a job failed.
FailedUpdates(e) ==
    [status |-> "failed", error |-> Some(e), finished_at |-> Some(utcnow)]

\* (mutant) a failure ends the batch.
AfterFailureAbort == "exit"

\* run_batch lines 80-83 and the loop: where a call goes on after a failure.
AfterFailure == "fetch"

Active(c) == pc[c] \notin {"idle", "done"}

\* A result is handed to its caller before anything else happens: nothing but
\* the caller reads it, so the order of that hand-over against the other
\* steps changes nothing they can see.
Quiet == \A c \in Calls : pc[c] # "done"

\* ------------------------------------------------------------- history
\* took[c]: the jobs the current run of call c passed to _process_job, in order;
\* moves[c]: the status updates it made, in order, as <<job, new status>>;
\* seen[c]: how many rows the jobs table held at its last pending fetch;
\* atFail[c]: the jobs that were pending when one of its stage handlers raised;
\* owed[c]: the jobs that were pending when it started or were enqueued since;
\* raised[c]: how many times a collaborator of its stage handlers raised;
\* handled[j]: how many times a stage handler has been entered for job j;
\* stop: whether the user has asked for the server to stop;
\* sent: the batches the last embedding pass that is followed batch by batch
\* has handed to embed_texts, each as the chunk ids of its texts, in order;
\* events: what an observer that keeps its events has been given by the
\* current run, in order.
FreshHist(h, c) ==
    [h EXCEPT !.took[c] = <<>>, !.moves[c] = <<>>, !.seen[c] = 0,
              !.atFail[c] = {}, !.owed[c] = {}, !.raised[c] = 0,
              !.events = <<>>]

Moved(h, c, j, s) == [h EXCEPT !.moves[c] = Append(@, <<j, s>>)]

\* ----------------------------------------------------- progress events
\* An event is [job_id, status, progress]; the message is left out.  A job
\* id is written <<j>> for the id of row j and <<>> for the empty string;
\* progress is in thousandths, 1000 for 1.0.

\* _notify_progress, lines 36-44, as _process_job calls it (lines 109, 136).
JobEvent(job_id, status, progress) ==
    [job_id |-> <<job_id>>, status |-> status, progress |-> progress]

\* _notify_progress as the stage handlers call it: self._notify_progress("",
\* "running", ...), lines 142, 160, 172, 178, 184, 186, 198, 216, 221.
StageEvent(progress) ==
    [job_id |-> <<>>, status |-> "running", progress |-> progress]

\* Lines 38-39: the callback, when one is set, is given the event; the
\* observer "log" keeps what it is given.
Notify(h, c, es) ==
    IF observer[bpOf[c]] = "log" THEN [h EXCEPT !.events = @ \o es] ELSE h

\* ---------------------------------------------------------------- Init
\* Database.add_paper: the row of a paper just added.
NewPaper ==
    [status |-> "pending", indexed_at |-> NULL, embeddings_ready |-> FALSE,
     doi |-> NULL, metadata |-> "{}"]

\* No search has been made.
NoSearch == [op |-> "none"]
NoReply == [op |-> "none"]

\* Config._load, lines 58-63: the paths derived from a storage directory.
derived_paths(storage_dir) ==
    [pdfs_dir    |-> <<storage_dir, "PDFs">>,
     exports_dir |-> <<storage_dir, "Exports">>,
     models_dir  |-> <<storage_dir, "Models">>,
     db_dir      |-> <<storage_dir, "DB">>]

\* Config.__init__: the token that was generated and saved, no Gemini key, the
\* default storage directory "d0"; file is what config.json holds (the keys
\* that no request changes are left out).
InitConfig ==
    [auth_token |-> <<"tok">>, gemini_api_key |-> "", storage_dir |-> "d0",
     paths |-> derived_paths("d0"),
     file |-> [auth_token |-> <<"tok">>, gemini_api_key |-> "",
               storage_dir |-> "d0"]]

\* (mutant) _load derives the paths from the attribute and reads no file.
load_paths_only(cfg) == [cfg EXCEPT !.paths = derived_paths(cfg.storage_dir)]

\* Config._load, lines 45-67: every attribute is read from the file, and the
\* paths are derived from the storage_dir read.
load(cfg) ==
    [cfg EXCEPT !.storage_dir = cfg.file.storage_dir,
                !.auth_token = cfg.file.auth_token,
                !.gemini_api_key = cfg.file.gemini_api_key,
                !.paths = derived_paths(cfg.file.storage_dir)]

\* Config.save, lines 69-81: the attributes are written to the file.
save(cfg) ==
    [cfg EXCEPT !.file = [auth_token |-> cfg.auth_token,
                          gemini_api_key |-> cfg.gemini_api_key,
                          storage_dir |-> cfg.storage_dir]]

\* Config.set_storage_dir, lines 89-96: the attribute is set, then _load,
\* then save.
set_storage_dir(cfg, path) == save(load([cfg EXCEPT !.storage_dir = path]))

\* update_config, lines 476-483; a field not given is None, and an empty
\* storage_dir counts as not given ("if request.storage_dir").
update_config(cfg, gemini_api_key, storage_dir) ==
    LET keyed == IF gemini_api_key # None
                 THEN [cfg EXCEPT !.gemini_api_key = gemini_api_key[1]]
                 ELSE cfg
        moved == IF storage_dir # None /\ storage_dir # Some("")
                 THEN set_storage_dir(keyed, storage_dir[1])
                 ELSE keyed
    IN  save(moved)

\* EmbeddingService.__init__ line 14: no model yet.  installed tells whether
\* the import of sentence_transformers (line 22) succeeds.
NoModel == [obj |-> None, built |-> 0, installed |-> TRUE]

InitStore ==
    /\ jobs = <<>>
    /\ papers = [p \in {"p1"} |-> NewPaper]
    /\ chunks = {}
    /\ embeddings = {}
    /\ uuid = 0
    /\ clock = 1
    /\ search = NoSearch
    /\ reply = NoReply
    /\ model = NoModel
    /\ annotations = {}
    /\ config = InitConfig

\* A PDF with text and a DOI in its first pages, present on disk.
GoodPdf ==
    [exists |-> TRUE, blocks |-> 1, doi_match |-> Some(<<"10.1000/x", ".">>)]

InitCalls ==
    /\ running = [b \in BPs |-> FALSE]
    /\ current_job = [b \in BPs |-> 0]
    /\ pc = [c \in Calls |-> "idle"]
    /\ loc = [c \in Calls |-> FreshLocals]
    /\ ret = [c \in Calls |-> NoResult]
    /\ hist = [took    |-> [c \in Calls |-> <<>>],
               moves   |-> [c \in Calls |-> <<>>],
               seen    |-> [c \in Calls |-> 0],
               atFail  |-> [c \in Calls |-> {}],
               owed    |-> [c \in Calls |-> {}],
               raised  |-> [c \in Calls |-> 0],
               handled |-> <<>>,
               stop    |-> FALSE,
               sent    |-> <<>>,
               events  |-> <<>>]

\* routes.py builds one BatchProcessor and never registers an observer.
Init ==
    /\ InitStore
    /\ InitCalls
    /\ pdfs = [p \in {"p1"} |-> GoodPdf]
    /\ observer = [b \in BPs |-> "None"]
    /\ bpOf = [c \in Calls |-> 1]

\* -------------------------------------------------------------- enqueue
\* POST /jobs/enqueue, and each add_job of enqueue_paper_jobs.  The clock may
\* or may not have advanced since the last row was stamped.
Enqueue(job) ==
    /\ Quiet
    /\ Len(jobs) < MaxJobs
    /\ \E tick \in {0, 1} :
          /\ clock' = clock + tick
          /\ jobs' = add_job(jobs, job, clock')
    /\ hist' = [hist EXCEPT !.handled = Append(@, 0),
                            !.owed = [c \in Calls |->
                                        IF Active(c)
                                        THEN @[c] \cup {Len(jobs) + 1}
                                        ELSE @[c]]]
    /\ UNCHANGED <<papers, pdfs, running, current_job, observer, bpOf, pc, loc, ret>>
    /\ UNCHANGED <<chunks, embeddings, uuid, search, reply, model,
                   annotations, config>>

\* ------------------------------------------------------------ run_batch
\* Lines 52-58: the call starts; busy, or the flag is taken.
RunBatch(c) ==
    /\ Quiet
    /\ pc[c] = "idle"
    /\ IF IsBusy(bpOf[c])
       THEN /\ pc' = [pc EXCEPT ![c] = "done"]
            /\ ret' = [ret EXCEPT ![c] = BusyResult]
            /\ UNCHANGED <<running, loc, hist>>
       ELSE /\ running' = [running EXCEPT ![bpOf[c]] = RunFlagSet]
            /\ pc' = [pc EXCEPT ![c] = "fetch"]
            /\ ret' = [ret EXCEPT ![c] = NoResult]
            /\ loc' = [loc EXCEPT ![c] = FreshLocals]
            /\ hist' = [FreshHist(hist, c) EXCEPT !.owed[c] =
                          {j \in DOMAIN jobs : jobs[j].status = "pending"}]
    /\ UNCHANGED <<jobs, papers, pdfs, clock, current_job, observer, bpOf>>
    /\ UNCHANGED <<chunks, embeddings, uuid, search, reply, model,
                   annotations, config>>

\* Lines 63-68: the pending fetch, and the pick of the first job.
Fetch(c) ==
    /\ Quiet
    /\ pc[c] = "fetch"
    /\ LET pending_jobs == get_pending_jobs(jobs)
           h == [hist EXCEPT !.seen[c] = Len(jobs)]
       IN  IF Drained(pending_jobs)
           THEN /\ pc' = [pc EXCEPT ![c] = "exit"]
                /\ hist' = h
                /\ UNCHANGED <<loc, current_job>>
           ELSE /\ pc' = [pc EXCEPT ![c] = "mark"]
                /\ loc' = [loc EXCEPT ![c].job = NextJob(pending_jobs)]
                /\ current_job' = [current_job EXCEPT ![bpOf[c]] = NextJob(pending_jobs)]
                /\ hist' = [h EXCEPT !.took[c] = Append(@, NextJob(pending_jobs))]
    /\ UNCHANGED <<jobs, papers, pdfs, clock, running, observer, bpOf, ret>>
    /\ UNCHANGED <<chunks, embeddings, uuid, search, reply, model,
                   annotations, config>>

\* Lines 85-93: the loop is left; the flag is cleared and the summary returned.
Exit(c) ==
    /\ Quiet
    /\ pc[c] = "exit"
    /\ running' = [running EXCEPT ![bpOf[c]] = FALSE]
    /\ ret' = [ret EXCEPT ![c] = Summary(loc[c])]
    /\ pc' = [pc EXCEPT ![c] = "done"]
    /\ UNCHANGED <<jobs, papers, pdfs, clock, current_job, observer, bpOf, loc, hist>>
    /\ UNCHANGED <<chunks, embeddings, uuid, search, reply, model,
                   annotations, config>>

\* _process_job lines 104-109: the job is marked running.
MarkRunning(c) ==
    /\ Quiet
    /\ pc[c] = "mark"
    /\ jobs' = update_job(jobs, loc[c].job, RunningUpdates)
    /\ hist' = Notify(Moved(hist, c, loc[c].job, "running"), c,
                      <<JobEvent(loc[c].job, "running", 0)>>)
    /\ pc' = [pc EXCEPT ![c] = "lookup"]
    /\ UNCHANGED <<papers, pdfs, clock, running, current_job, observer, bpOf, loc, ret>>
    /\ UNCHANGED <<chunks, embeddings, uuid, search, reply, model,
                   annotations, config>>

Raise(c, e) ==
    /\ pc' = [pc EXCEPT ![c] = "fail"]
    /\ loc' = [loc EXCEPT ![c].e = e]

\* (mutant) the file is not looked for.
PdfMissingNever(pdf) == FALSE

\* _process_job lines 116-117: "if not pdf_path.exists()".
PdfMissing(pdf) == ~pdf.exists

\* _process_job lines 112-118: the paper row is read and the PDF file looked
\* for; either may be missing.
Lookup(c) ==
    /\ Quiet
    /\ pc[c] = "lookup"
    /\ LET paper_id == jobs[loc[c].job].paper_id
           paper == get_paper(papers, paper_id)
       IN  IF paper = NoPaper
           THEN /\ Raise(c, "Paper not found")
                /\ UNCHANGED hist
           ELSE IF PdfMissing(pdfs[paper_id])
           THEN /\ Raise(c, "PDF not found")
                /\ UNCHANGED hist
           ELSE /\ pc' = [pc EXCEPT ![c] = "handler"]
                /\ hist' = [hist EXCEPT !.handled[loc[c].job] = @ + 1]
                /\ UNCHANGED loc
    /\ UNCHANGED <<jobs, papers, pdfs, clock, running, current_job, observer, bpOf, ret>>
    /\ UNCHANGED <<chunks, embeddings, uuid, search, reply, model,
                   annotations, config>>

\* The route /batch/run hands the result to its client; the call is over.
Return(c) ==
    /\ pc[c] = "done"
    /\ pc' = [pc EXCEPT ![c] = "idle"]
    /\ ret' = [ret EXCEPT ![c] = NoResult]
    /\ loc' = [loc EXCEPT ![c] = FreshLocals]
    /\ hist' = FreshHist(hist, c)
    /\ UNCHANGED <<jobs, papers, pdfs, clock, running, current_job, observer, bpOf>>
    /\ UNCHANGED <<chunks, embeddings, uuid, search, reply, model,
                   annotations, config>>

\* -------------------------------------------------------- stage handlers
\* The collaborators.  A PDF file is [exists, blocks, doi_match]: whether the
\* file is on disk, how many text blocks of more than 10 characters PyMuPDF
\* finds in it, and the text the DOI pattern matches in its first three
\* pages, as a sequence of characters (None: no match).
\* Each collaborator may also raise (a file PyMuPDF cannot open, a model that
\* cannot be loaded).

\* extract_text_from_pdf: one chunk per block, each with a new uuid4 id (n
\* numbers the calls, so no id is drawn twice); has_text iff there is one.
extract_text_from_pdf(pdf, n) ==
    LET cs == [k \in 1..pdf.blocks |-> [id |-> <<n, k>>, chunk_index |-> k - 1]]
    IN  [chunks |-> cs, has_text |-> cs # <<>>]

\* extract_doi_from_pdf line 74: re.sub(r'[.,;)\]]+$', '', doi).
TrailingChars == {".", ",", ";", ")", "]"}

RECURSIVE rstrip(_)
rstrip(t) ==
    IF t # <<>> /\ t[Len(t)] \in TrailingChars
    THEN rstrip(SubSeq(t, 1, Len(t) - 1))
    ELSE t

\* extract_doi_from_pdf: the match without its trailing punctuation, or None.
extract_doi_from_pdf(pdf) ==
    IF pdf.doi_match = None THEN None ELSE Some(rstrip(pdf.doi_match[1]))

\* A handler's store calls are taken as one step: with one BatchProcessor no
\* other coroutine writes the rows a handler writes.  A handler maps the
\* tables [papers, chunks, embeddings] to the tables it leaves.

\* _extract_text lines 157-158: chunk["paper_id"] = paper_id.
TagChunks(cs, paper_id) ==
    [i \in DOMAIN cs |-> [id |-> cs[i].id, paper_id |-> paper_id,
                          chunk_index |-> cs[i].chunk_index]]

\* (mutant) a PDF without text is indexed like any other.
NoTextNever(x) == FALSE

\* _extract_text line 147: "if not has_text".
NoText(x) == ~x.has_text

\* _extract_text, lines 138-172.
extract_text(db, paper_id, pdf, n) ==
    LET x == extract_text_from_pdf(pdf, n)
    IN  IF NoText(x)
        THEN [db EXCEPT !.papers = update_paper(@, paper_id,
                            [status |-> "needs_ocr",
                             metadata |-> "{has_text: false}"])]
        ELSE [db EXCEPT
                !.chunks = add_chunks(delete_chunks(@, paper_id),
                                      TagChunks(x.chunks, paper_id)),
                !.papers = update_paper(@, paper_id,
                              [indexed_at |-> Some(utcnow),
                               status |-> "indexed"])]

\* (mutant) a missing DOI is stored as an empty DOI.
FoundAlways(doi) == TRUE

\* _extract_doi line 182: "if doi" (a string that is not empty).
Found(doi) == doi # None /\ doi[1] # <<>>

\* _extract_doi, lines 174-186.
extract_doi(db, paper_id, pdf) ==
    LET doi == extract_doi_from_pdf(pdf)
    IN  IF Found(doi)
        THEN [db EXCEPT !.papers = update_paper(@, paper_id, [doi |-> doi])]
        ELSE db

\* _compute_embeddings line 204.
batch_size == 32

\* _compute_embeddings lines 205-216: add_embedding for the first k chunks,
\* in the order of get_chunks.
RECURSIVE embed_first(_, _, _, _)
embed_first(es, cs, k, job_id) ==
    IF k = 0 THEN es
    ELSE add_embedding(embed_first(es, cs, k - 1, job_id), cs[k].id, job_id)

\* (mutant) the model is loaded whether or not there is one.
ModelMissingAlways(m) == TRUE

\* EmbeddingService.model line 20: "if self._model is None".
ModelMissing(m) == m.obj = None

\* EmbeddingService.model, lines 17-31, when the constructor returns: the
\* property has no await in it, so nothing runs between its test and its
\* assignment.  obj numbers the object constructed.
load_model(m) ==
    IF ModelMissing(m)
    THEN [m EXCEPT !.obj = Some(m.built + 1), !.built = m.built + 1]
    ELSE m

\* (mutant) the import is taken to succeed.
NotInstalledNever(m) == FALSE

\* EmbeddingService.model lines 21-30: the import raises ImportError, and the
\* property raises RuntimeError("sentence-transformers not installed. ...").
NotInstalled(m) == ModelMissing(m) /\ ~m.installed

\* What embed_text / embed_texts can leave when it raises: the constructor
\* raised and _model is as before, or encode raised on a loaded model.
ModelAfterRaise(m) == {m, load_model(m)}

\* (mutant) the check for chunks is missing.
NoChunksNever(cs) == FALSE

\* _compute_embeddings line 194: "if not chunks".
NoChunks(cs) == cs = <<>>

\* (mutant) the flag is set after the first batch of embeddings.
EmbeddedUpToOne(cs) == IF Len(cs) > 0 THEN 1 ELSE 0

\* How many chunks have their embedding written when line 219 is reached:
\* the loops of lines 205-213 have gone through all of them.
EmbeddedUpTo(cs) == Len(cs)

\* _compute_embeddings, lines 197-221 (chunks found, nothing raises).
compute_embeddings(db, paper_id, job_id) ==
    LET cs == get_chunks(db.chunks, paper_id)
    IN  [db EXCEPT
            !.embeddings = embed_first(@, cs, EmbeddedUpTo(cs), job_id),
            !.papers = update_paper(@, paper_id, [embeddings_ready |-> TRUE])]

\* Where _compute_embeddings can raise after line 195, as the number of
\* chunks whose embedding is written by then: embed_texts raises at the start
\* of a batch, add_embedding raises at a chunk, update_paper raises at the end.
EmbedFailPoints(n) ==
    {i * batch_size : i \in 0..((n - 1) \div batch_size)}
        \cup 0..(n - 1) \cup {n}

\* (mutant) a job of a type that is not known is passed to the DOI handler.
RouteLenient(type) ==
    IF type \in {"EXTRACT_TEXT", "EXTRACT_DOI", "EMBED"} THEN type
    ELSE "EXTRACT_DOI"

\* _process_job lines 121-128: the handler a job type is routed to.
Route(type) ==
    IF type \in {"EXTRACT_TEXT", "EXTRACT_DOI", "EMBED"} THEN type
    ELSE "unknown"

\* What run_batch records when a collaborator raises (PyMuPDF, the model).
CollaboratorErrors ==
    {"text extraction failed", "DOI extraction failed", "embedding failed"}

\* The events of _extract_text: lines 142, 160 and 172; the first alone when
\* the PDF has no text (the return of line 154).
extract_text_events(pdf, n) ==
    IF NoText(extract_text_from_pdf(pdf, n))
    THEN <<StageEvent(100)>>
    ELSE <<StageEvent(100), StageEvent(500), StageEvent(1000)>>

\* The events of _extract_doi: line 178, then line 184 or line 186.
extract_doi_events == <<StageEvent(500), StageEvent(1000)>>

\* (mutant) the progress follows what is left to do.
embed_progress_left(done, total) == 100 + (800 * (total - done)) \div total

\* Line 215: min(0.9, 0.1 + 0.8 * (i + len(batch_texts)) / total).
embed_progress(done, total) ==
    IF 900 < 100 + (800 * done) \div total THEN 900
    ELSE 100 + (800 * done) \div total

\* The events of _compute_embeddings: line 198, line 216 for each of the first
\* batches turns of the loop, and line 221 when it is reached.
embed_events(total, batches, reached) ==
    <<StageEvent(100)>>
        \o [b \in 1..batches |->
              StageEvent(embed_progress(
                 IF b * batch_size < total THEN b * batch_size ELSE total,
                 total))]
        \o (IF reached THEN <<StageEvent(1000)>> ELSE <<>>)

Tables == [papers |-> papers, chunks |-> chunks, embeddings |-> embeddings]

HandlerOk(c, db, es) ==
    /\ papers' = db.papers
    /\ chunks' = db.chunks
    /\ embeddings' = db.embeddings
    /\ pc' = [pc EXCEPT ![c] = "complete"]
    /\ hist' = Notify(hist, c, es)
    /\ UNCHANGED loc

HandlerFails(c, db, e, es) ==
    /\ papers' = db.papers
    /\ chunks' = db.chunks
    /\ embeddings' = db.embeddings
    /\ Raise(c, e)
    /\ hist' = Notify([hist EXCEPT
                   !.atFail[c] =
                       @ \cup {j \in DOMAIN jobs : jobs[j].status = "pending"},
                   !.raised[c] = IF e \in CollaboratorErrors THEN @ + 1 ELSE @],
                      c, es)

\* _process_job lines 120-128: the route to the stage handler, and the handler.
\* A collaborator that raises does so before the handler's first write.
Handler(c) ==
    /\ Quiet
    /\ pc[c] = "handler"
    /\ LET job_id == loc[c].job
           paper_id == jobs[job_id].paper_id
           to == Route(jobs[job_id].type)
           total == Len(get_chunks(chunks, paper_id))
       IN  CASE to = "EXTRACT_TEXT" ->
                  /\ \/ /\ HandlerFails(c, Tables, "text extraction failed",
                                        <<StageEvent(100)>>)
                        /\ UNCHANGED uuid
                     \/ /\ HandlerOk(c, extract_text(Tables, paper_id,
                                                     pdfs[paper_id], uuid + 1),
                                     extract_text_events(pdfs[paper_id], uuid + 1))
                        /\ uuid' = uuid + 1
                  /\ UNCHANGED model
            [] to = "EXTRACT_DOI" ->
                  /\ \/ HandlerFails(c, Tables, "DOI extraction failed",
                                     <<StageEvent(500)>>)
                     \/ HandlerOk(c, extract_doi(Tables, paper_id, pdfs[paper_id]),
                                  extract_doi_events)
                  /\ UNCHANGED <<uuid, model>>
            [] to = "EMBED" ->
                  /\ IF NoChunks(get_chunks(chunks, paper_id))
                     THEN /\ HandlerFails(c, Tables, "No chunks found", <<>>)
                          /\ UNCHANGED model
                     ELSE IF NotInstalled(model)
                     THEN /\ HandlerFails(c, Tables,
                                          "sentence-transformers not installed",
                                          embed_events(total, 0, FALSE))
                          /\ UNCHANGED model
                     ELSE \/ /\ HandlerFails(c, Tables, "embedding failed",
                                             embed_events(total, 0, FALSE))
                             /\ model' \in ModelAfterRaise(model)
                          \/ /\ HandlerOk(c, compute_embeddings(Tables, paper_id,
                                                                job_id),
                                          embed_events(total,
                                             (total + batch_size - 1) \div batch_size,
                                             TRUE))
                             /\ model' = load_model(model)
                  /\ UNCHANGED uuid
            [] OTHER ->
                  /\ HandlerFails(c, Tables, "Unknown job type", <<>>)
                  /\ UNCHANGED <<uuid, model>>
    /\ UNCHANGED <<jobs, pdfs, clock, running, current_job, observer, bpOf, ret, search, reply,
                   annotations, config>>

\* _compute_embeddings raises after some embeddings are written: a later
\* batch that embed_texts fails on, or a store write that fails.
EmbedRaisesLate(c) ==
    /\ Quiet
    /\ pc[c] = "handler"
    /\ Route(jobs[loc[c].job].type) = "EMBED"
    /\ LET job_id == loc[c].job
           paper_id == jobs[job_id].paper_id
           cs == get_chunks(chunks, paper_id)
       IN  /\ ~NoChunks(cs)
           /\ ~NotInstalled(model)
           /\ \E k \in EmbedFailPoints(Len(cs)) \ {0} :
                 HandlerFails(c, [Tables EXCEPT !.embeddings =
                                     embed_first(@, cs, k, job_id)],
                              "embedding failed",
                              embed_events(Len(cs),
                                 IF k = Len(cs)
                                 THEN (Len(cs) + batch_size - 1) \div batch_size
                                 ELSE k \div batch_size,
                                 FALSE))
    /\ model' = load_model(model)
    /\ UNCHANGED <<jobs, uuid, pdfs, clock, running, current_job, observer, bpOf, ret, search, reply,
                   annotations, config>>

\* _process_job lines 131-136 and run_batch lines 72, 83: the job is marked
\* completed and counted.
MarkCompleted(c) ==
    /\ Quiet
    /\ pc[c] = "complete"
    /\ jobs' = update_job(jobs, loc[c].job, CompletedUpdates)
    /\ hist' = Notify(Moved(hist, c, loc[c].job, "completed"), c,
                      <<JobEvent(loc[c].job, "completed", 1000)>>)
    /\ loc' = [loc EXCEPT ![c].processed = @ + 1]
    /\ current_job' = [current_job EXCEPT ![bpOf[c]] = 0]
    /\ pc' = [pc EXCEPT ![c] = "fetch"]
    /\ UNCHANGED <<papers, pdfs, clock, running, observer, bpOf, ret>>
    /\ UNCHANGED <<chunks, embeddings, uuid, search, reply, model,
                   annotations, config>>

\* run_batch lines 73-83: the except branch; the job is marked failed and
\* the failure recorded.
MarkFailed(c) ==
    /\ Quiet
    /\ pc[c] = "fail"
    /\ jobs' = update_job(jobs, loc[c].job, FailedUpdates(loc[c].e))
    /\ hist' = Moved(hist, c, loc[c].job, "failed")
    /\ loc' = [loc EXCEPT ![c].failed = @ + 1,
                          ![c].errors = Append(@, [job_id |-> loc[c].job,
                                                   error |-> loc[c].e])]
    /\ current_job' = [current_job EXCEPT ![bpOf[c]] = 0]
    /\ pc' = [pc EXCEPT ![c] = AfterFailure]
    /\ UNCHANGED <<papers, pdfs, clock, running, observer, bpOf, ret>>
    /\ UNCHANGED <<chunks, embeddings, uuid, search, reply, model,
                   annotations, config>>

\* ------------------------------------------------------- specification
Step(c) ==
    \/ Fetch(c)
    \/ Exit(c)
    \/ MarkRunning(c)
    \/ Lookup(c)
    \/ Handler(c)
    \/ MarkCompleted(c)
    \/ MarkFailed(c)

Next ==
    \/ \E job \in JobInputs : Enqueue(job)
    \/ \E c \in Calls : RunBatch(c)
    \/ \E c \in Calls : Step(c)
    \/ \E c \in Calls : Return(c)

\* One BatchProcessor, no observer, a store whose calls do not raise.
Spec == Init /\ [][Next]_vars

\* The event loop runs every coroutine that is ready and the connection's
\* thread executes every statement queued: a call that can take a step takes
\* it, and a result is handed over.  (Strong fairness for the steps: in the
\* model a step waits while some result is being handed over.)
FairSpec ==
    /\ Spec
    /\ \A c \in Calls : SF_vars(Step(c)) /\ WF_vars(Return(c))

\* ------------------------------------------------ executions that raise
\* A registered progress observer may raise, and so may a store call.  What
\* follows are the steps of run_batch in which one of them does.

\* Lines 38-44: the callback is called only when one is registered.
Notifies(c) == observer[bpOf[c]] # "None"

\* (mutant) there is no finally clause: the flag stays as it is.
PropagateNoFinally(c) ==
    /\ UNCHANGED running
    /\ ret' = [ret EXCEPT ![c] = RaisedResult]
    /\ pc' = [pc EXCEPT ![c] = "done"]

\* The exception leaves run_batch: the finally clause clears the flag, and
\* the route answers with an error.
Propagate(c) ==
    /\ running' = [running EXCEPT ![bpOf[c]] = FALSE]
    /\ ret' = [ret EXCEPT ![c] = RaisedResult]
    /\ pc' = [pc EXCEPT ![c] = "done"]

\* Line 63: get_pending_jobs raises, outside the inner try.
FetchStoreRaises(c) ==
    /\ Quiet
    /\ pc[c] = "fetch"
    /\ Propagate(c)
    /\ UNCHANGED <<jobs, papers, pdfs, clock, current_job, observer, bpOf, loc, hist>>
    /\ UNCHANGED <<chunks, embeddings, uuid, search, reply, model,
                   annotations, config>>

\* Lines 104-107: update_job raises, the row is not changed.
MarkRunningStoreRaises(c) ==
    /\ Quiet
    /\ pc[c] = "mark"
    /\ Raise(c, "store error")
    /\ UNCHANGED <<jobs, papers, pdfs, clock, running, current_job, observer, bpOf, ret, hist>>
    /\ UNCHANGED <<chunks, embeddings, uuid, search, reply, model,
                   annotations, config>>

\* Line 109: the row is marked running, then the observer raises.
MarkRunningObserverRaises(c) ==
    /\ Quiet
    /\ pc[c] = "mark"
    /\ Notifies(c)
    /\ jobs' = update_job(jobs, loc[c].job, RunningUpdates)
    /\ hist' = Moved(hist, c, loc[c].job, "running")
    /\ Raise(c, "observer error")
    /\ UNCHANGED <<papers, pdfs, clock, running, current_job, observer, bpOf, ret>>
    /\ UNCHANGED <<chunks, embeddings, uuid, search, reply, model,
                   annotations, config>>

\* Line 112: get_paper raises.
LookupStoreRaises(c) ==
    /\ Quiet
    /\ pc[c] = "lookup"
    /\ Raise(c, "store error")
    /\ UNCHANGED <<jobs, papers, pdfs, clock, running, current_job, observer, bpOf, ret, hist>>
    /\ UNCHANGED <<chunks, embeddings, uuid, search, reply, model,
                   annotations, config>>

\* Lines 131-134: update_job raises, the row is not changed.
MarkCompletedStoreRaises(c) ==
    /\ Quiet
    /\ pc[c] = "complete"
    /\ Raise(c, "store error")
    /\ UNCHANGED <<jobs, papers, pdfs, clock, running, current_job, observer, bpOf, ret, hist>>
    /\ UNCHANGED <<chunks, embeddings, uuid, search, reply, model,
                   annotations, config>>

\* Line 136: the row is marked completed, then the observer raises; the
\* exception reaches the except branch of run_batch (line 73).
MarkCompletedObserverRaises(c) ==
    /\ Quiet
    /\ pc[c] = "complete"
    /\ Notifies(c)
    /\ jobs' = update_job(jobs, loc[c].job, CompletedUpdates)
    /\ hist' = Moved(hist, c, loc[c].job, "completed")
    /\ Raise(c, "observer error")
    /\ UNCHANGED <<papers, pdfs, clock, running, current_job, observer, bpOf, ret>>
    /\ UNCHANGED <<chunks, embeddings, uuid, search, reply, model,
                   annotations, config>>

\* Lines 75-79: update_job raises inside the except branch; nothing catches it.
MarkFailedStoreRaises(c) ==
    /\ Quiet
    /\ pc[c] = "fail"
    /\ Propagate(c)
    /\ UNCHANGED <<jobs, papers, pdfs, clock, current_job, observer, bpOf, loc, hist>>
    /\ UNCHANGED <<chunks, embeddings, uuid, search, reply, model,
                   annotations, config>>

StepRaises(c) ==
    \/ FetchStoreRaises(c)
    \/ MarkRunningStoreRaises(c)
    \/ MarkRunningObserverRaises(c)
    \/ LookupStoreRaises(c)
    \/ MarkCompletedStoreRaises(c)
    \/ MarkCompletedObserverRaises(c)
    \/ MarkFailedStoreRaises(c)

InitFaults ==
    /\ InitStore
    /\ InitCalls
    /\ pdfs = [p \in {"p1"} |-> GoodPdf]
    /\ observer = [b \in BPs |-> "callback"]
    /\ bpOf = [c \in Calls |-> 1]

NextFaults ==
    \/ Next
    \/ \E c \in Calls : StepRaises(c)

\* One BatchProcessor with an observer registered (set_progress_callback);
\* the observer and the store calls of run_batch may raise.
SpecFaults == InitFaults /\ [][NextFaults]_vars

\* The same, with the scheduling of FairSpec: a step that raises is a step.
FairSpecFaults ==
    /\ SpecFaults
    /\ \A c \in Calls :
          SF_vars(Step(c) \/ StepRaises(c)) /\ WF_vars(Return(c))

\* ---------------------------------------------------------- documents
\* What the stage handlers do to a paper, over the PDFs they may find.
\* PlainPdf has two text blocks and no DOI, ScannedPdf has no text at all.
\* (Their chunks fit in one embedding batch.)
PlainPdf == [exists |-> TRUE, blocks |-> 2, doi_match |-> None]
ScannedPdf == [exists |-> TRUE, blocks |-> 0, doi_match |-> None]

PdfKinds == {GoodPdf, PlainPdf, ScannedPdf}

\* A second paper, "p2", is in the library, indexed and embedded earlier:
\* one chunk and its embedding (job 0 stands for the pass that wrote it).
OldChunk == [id |-> <<0, 1>>, paper_id |-> "p2", chunk_index |-> 0]

InitDocs ==
    /\ jobs = <<>>
    /\ papers = [p \in {"p1", "p2"} |->
                    IF p = "p1" THEN NewPaper
                    ELSE [NewPaper EXCEPT !.status = "indexed",
                                          !.indexed_at = Some(utcnow),
                                          !.embeddings_ready = TRUE]]
    /\ chunks = {OldChunk}
    /\ embeddings = {[chunk_id |-> OldChunk.id, by |-> 0]}
    /\ uuid = 0
    /\ clock = 1
    /\ search = NoSearch
    /\ reply = NoReply
    /\ model = NoModel
    /\ annotations = {}
    /\ config = InitConfig
    /\ InitCalls
    /\ pdfs \in [{"p1"} -> PdfKinds]
    /\ observer = [b \in BPs |-> "None"]
    /\ bpOf = [c \in Calls |-> 1]

\* The file at a paper's local_pdf_path is replaced on disk (the program
\* writes it once, in /papers/add; anything else is the user's doing).
ReplacePdf(kind) ==
    /\ Quiet
    /\ pdfs["p1"] # kind
    /\ pdfs' = [pdfs EXCEPT !["p1"] = kind]
    /\ UNCHANGED <<jobs, papers, chunks, embeddings, uuid, clock, running,
                   current_job, observer, bpOf, pc, loc, ret, hist, search,
                   reply, model,
                   annotations, config>>

NextDocs ==
    \/ \E job \in StandardJobs : Enqueue(job)
    \/ \E kind \in PdfKinds : ReplacePdf(kind)
    \/ RunBatch(1)
    \/ Step(1)
    \/ EmbedRaisesLate(1)
    \/ Return(1)

\* One client drains the queue of standard jobs of paper "p1", call after
\* call; the embedding pass may raise at any of its points.
SpecDocs == InitDocs /\ [][NextDocs]_vars

\* ---------------------------------------------------------- ingestion
\* enqueue_paper_jobs lines 232-233, as /papers/add calls it for the paper
\* it has added: one add_job per step, in the order of the list.
EnqueuePaperJob ==
    /\ Quiet
    /\ Len(jobs) < Len(PaperJobs)
    /\ \E tick \in {0, 1} :
          /\ clock' = clock + tick
          /\ jobs' = add_job(jobs, PaperJobs[Len(jobs) + 1], clock')
    /\ hist' = [hist EXCEPT !.handled = Append(@, 0),
                            !.owed = [c \in Calls |->
                                        IF Active(c)
                                        THEN @[c] \cup {Len(jobs) + 1}
                                        ELSE @[c]]]
    /\ UNCHANGED <<papers, pdfs, running, current_job, observer, bpOf, pc, loc, ret>>
    /\ UNCHANGED <<chunks, embeddings, uuid, search, reply, model,
                   annotations, config>>

NextIngest ==
    \/ EnqueuePaperJob
    \/ \E c \in Calls : RunBatch(c)
    \/ \E c \in Calls : Step(c)
    \/ \E c \in Calls : Return(c)

\* One paper is added and its three jobs enqueued, while /batch/run is called.
SpecIngest == Init /\ [][NextIngest]_vars

\* ------------------------------------------------------- two runners
\* Two BatchProcessor objects on one Database: each has its own run flag.
InitTwo ==
    /\ InitStore
    /\ InitCalls
    /\ pdfs = [p \in {"p1"} |-> GoodPdf]
    /\ observer = [b \in BPs |-> "None"]
    /\ bpOf = [c \in Calls |-> IF c = 1 THEN 1 ELSE 2]

SpecTwo == InitTwo /\ [][Next]_vars

\* ------------------------------------------------------ EmbeddingService
\* A vector is a sequence of numbers in fixed point: the integer x stands for
\* the real x / One, so that what float32 cannot hold is visible.  A float32
\* has 24 significant bits: between 1/2 and 1 its values are 16 units apart.
One == 2^28

Abs(x) == IF x < 0 THEN 0 - x ELSE x

\* The e with 2^e <= n < 2^(e+1), for n >= 1.
RECURSIVE Exponent(_)
Exponent(n) == IF n < 2 THEN 0 ELSE 1 + Exponent(n \div 2)

\* (mutant) the conversion to float32 keeps 8 significant bits.
SignificandBits8 == 8 - 1

\* The fraction bits of a float32 significand (numpy float32, IEEE binary32).
SignificandBits == 23

\* vector.astype(np.float32), line 43: the nearest float32, ties to even.
astype_float32(x) ==
    LET e == Exponent(Abs(x))
    IN  IF x = 0 \/ e <= SignificandBits THEN x
        ELSE LET step == 2^(e - SignificandBits)
                 q == Abs(x) \div step
                 r == Abs(x) % step
                 up == 2 * r > step \/ (2 * r = step /\ q % 2 = 1)
                 m == (IF up THEN q + 1 ELSE q) * step
             IN  IF x < 0 THEN 0 - m ELSE m

\* .tobytes() of one float32: sign, biased exponent and fraction, least
\* significant byte first (0.0 = 00 00 00 00, 1.0 = 00 00 80 3f,
\* -1.0 = 00 00 80 bf).
Float32Bytes(x) ==
    IF x = 0 THEN <<0, 0, 0, 0>>
    ELSE LET e == Exponent(Abs(x))
             biased == (e - 28) + 127
             frac == IF e <= 23 THEN (Abs(x) - 2^e) * 2^(23 - e)
                     ELSE (Abs(x) - 2^e) \div 2^(e - 23)
             sign == IF x < 0 THEN 1 ELSE 0
         IN  <<frac % 256,
               (frac \div 256) % 256,
               (frac \div 65536) + 128 * (biased % 2),
               128 * sign + (biased \div 2)>>

\* EmbeddingService.vector_to_bytes, lines 41-43.
RECURSIVE vector_to_bytes(_)
vector_to_bytes(v) ==
    IF v = <<>> THEN <<>>
    ELSE Float32Bytes(astype_float32(Head(v))) \o vector_to_bytes(Tail(v))

\* The float32 that four bytes hold.
BytesFloat32(b) ==
    LET sign == b[4] \div 128
        biased == 2 * (b[4] % 128) + (b[3] \div 128)
        frac == 65536 * (b[3] % 128) + 256 * b[2] + b[1]
        e == (biased - 127) + 28
        m == IF e >= 23 THEN (2^23 + frac) * 2^(e - 23)
             ELSE (2^23 + frac) \div 2^(23 - e)
    IN  IF biased = 0 /\ frac = 0 THEN 0
        ELSE IF sign = 1 THEN 0 - m ELSE m

\* EmbeddingService.bytes_to_vector, lines 45-47: np.frombuffer reads one
\* component per four bytes (and raises when the length is no multiple of 4).
RECURSIVE bytes_to_vector(_)
bytes_to_vector(data) ==
    IF data = <<>> THEN <<>>
    ELSE <<BytesFloat32(SubSeq(data, 1, 4))>>
            \o bytes_to_vector(SubSeq(data, 5, Len(data)))

Decodable(data) == Len(data) % 4 = 0

\* (mutant) vectors of different lengths are multiplied up to the shorter.
AlignedAlways(a, b) == TRUE

\* np.dot of two one-dimensional arrays raises ValueError (shapes not
\* aligned) unless they have the same length.
Aligned(a, b) == Len(a) = Len(b)

\* The product of two numbers of the fixed point, exact for multiples of
\* 2^14 units, which the components drawn for search are.
Times(x, y) == (x \div 2^14) * (y \div 2^14)

RECURSIVE dot(_, _)
dot(a, b) ==
    IF a = <<>> \/ b = <<>> THEN 0
    ELSE Times(Head(a), Head(b)) + dot(Tail(a), Tail(b))

\* EmbeddingService.cosine_similarity: the vectors are taken as normalized.
cosine_similarity(query_vec, doc_vec) == dot(query_vec, doc_vec)

\* What makes the loop of search (lines 74-80) raise: a stored buffer that
\* frombuffer or np.dot rejects.  Nothing in search catches it.
search_raises(query_vec, chunks_with_embeddings) ==
    \E i \in DOMAIN chunks_with_embeddings :
       \/ ~Decodable(chunks_with_embeddings[i].vector)
       \/ ~Aligned(query_vec, bytes_to_vector(chunks_with_embeddings[i].vector))

\* (mutant) reverse=True taken as sorting ascending and reversing the list.
TieBeforeReversed(i, k) == i >= k

\* list.sort is stable, also with reverse=True: of two elements with equal
\* keys the one that was first stays first.
TieBefore(i, k) == i <= k

\* results.sort(key=score, reverse=True), line 83: by score descending.
RECURSIVE sort_by_score(_)
sort_by_score(rs) ==
    IF rs = <<>> THEN <<>>
    ELSE LET m == CHOOSE i \in DOMAIN rs :
                     \A k \in DOMAIN rs :
                        \/ rs[i].score > rs[k].score
                        \/ rs[i].score = rs[k].score /\ TieBefore(i, k)
             rest == [k \in 1..(Len(rs) - 1) |-> IF k < m THEN rs[k] ELSE rs[k + 1]]
         IN  <<rs[m]>> \o sort_by_score(rest)

\* (mutant) the slice, with a negative top_k taken as zero.
SliceClamped(rs, k) ==
    IF k >= 0
    THEN SubSeq(rs, 1, IF k < Len(rs) THEN k ELSE Len(rs))
    ELSE <<>>

\* results[:top_k], line 85.  A Python slice with a negative stop counts
\* from the end: it leaves out the last -top_k elements.
Slice(rs, k) ==
    IF k >= 0
    THEN SubSeq(rs, 1, IF k < Len(rs) THEN k ELSE Len(rs))
    ELSE SubSeq(rs, 1, IF Len(rs) + k > 0 THEN Len(rs) + k ELSE 0)

\* Lines 78-79: result = {**chunk, "score": score}; del result["vector"].
\* The result is a new dict: the chunk that was passed in keeps its fields.
with_score(chunk, score) ==
    [f \in (DOMAIN chunk \cup {"score"}) \ {"vector"} |->
        IF f = "score" THEN score ELSE chunk[f]]

\* EmbeddingService.search, lines 71-85; query_vec is what embed_text gives
\* for the query.  A result is the chunk without its vector, with its score.
search_chunks(query_vec, chunks_with_embeddings, top_k) ==
    LET results ==
            [i \in DOMAIN chunks_with_embeddings |->
                with_score(chunks_with_embeddings[i],
                           cosine_similarity(query_vec,
                              bytes_to_vector(chunks_with_embeddings[i].vector)))]
    IN  Slice(sort_by_score(results), top_k)

\* A normalized score is a fraction num/den (float division; 0/den and
\* den/den are exactly 0.0 and 1.0 in floating point as well).
Half == [num |-> 1, den |-> 2]

RECURSIVE min_score(_)
min_score(rs) ==
    IF Len(rs) = 1 THEN rs[1].score
    ELSE LET m == min_score(Tail(rs))
         IN  IF rs[1].score < m THEN rs[1].score ELSE m

RECURSIVE max_score(_)
max_score(rs) ==
    IF Len(rs) = 1 THEN rs[1].score
    ELSE LET m == max_score(Tail(rs))
         IN  IF rs[1].score > m THEN rs[1].score ELSE m

\* (mutant) the score is divided by the maximum, not by the range.
NormalizedByMax(score, lo, hi) == [num |-> score, den |-> hi]

\* normalize_scores line 103: (r["score"] - min_score) / score_range.
Normalized(score, lo, hi) == [num |-> score - lo, den |-> hi - lo]

\* EmbeddingService.normalize_scores, lines 87-105.
normalize_scores(results) ==
    IF results = <<>> THEN results
    ELSE LET lo == min_score(results)
             hi == max_score(results)
         IN  [i \in DOMAIN results |->
                [id |-> results[i].id,
                 score |-> results[i].score,
                 normalized_score |->
                    IF hi - lo = 0 THEN Half
                    ELSE Normalized(results[i].score, lo, hi)]]

\* The inputs: up to MaxCands chunks whose vectors are unit vectors in two
\* dimensions or vectors stored with another dimension, results with scores
\* of -1, 0 or 1 (in whole units), and any top_k from -MaxCands to
\* MaxCands + 1 (SearchRequest.top_k is an int without a validator).
UnitVectors == {<<One, 0>>, <<0, One>>, <<0 - One, 0>>}
StoredVectors == UnitVectors \cup {<<One>>, <<One, 0, 0>>}
TopKs == (0 - MaxCands)..(MaxCands + 1)

SeqsUpTo(S, n) == UNION {[1..k -> S] : k \in 0..n}

WithIds(q) == [i \in DOMAIN q |-> [id |-> i, vector |-> vector_to_bytes(q[i])]]
WithScores(q) == [i \in DOMAIN q |-> [id |-> i, score |-> q[i]]]

\* The call that is about to be made: its arguments are drawn here.
InitSearch ==
    /\ jobs = <<>>
    /\ papers = [p \in {"p1"} |-> NewPaper]
    /\ chunks = {}
    /\ embeddings = {}
    /\ uuid = 0
    /\ clock = 1
    /\ InitCalls
    /\ pdfs = [p \in {"p1"} |-> GoodPdf]
    /\ observer = [b \in BPs |-> "None"]
    /\ bpOf = [c \in Calls |-> 1]
    /\ reply = NoReply
    /\ model = NoModel
    /\ annotations = {}
    /\ config = InitConfig
    /\ \/ \E query_vec \in {<<One, 0>>, <<0, One>>}, top_k \in TopKs :
             \E vectors \in SeqsUpTo(StoredVectors, MaxCands) :
                search = [op |-> "search_call",
                          query_vec |-> query_vec,
                          input |-> WithIds(vectors),
                          top_k |-> top_k]
       \/ \E scores \in SeqsUpTo({-1, 0, 1}, MaxCands) :
             search = [op |-> "normalize_call", input |-> WithScores(scores)]

\* EmbeddingService.search runs on its arguments.
Search ==
    /\ search.op = "search_call"
    /\ search' = IF search_raises(search.query_vec, search.input)
                 THEN [op |-> "search_raised",
                       error |-> "ValueError",
                       query_vec |-> search.query_vec,
                       input |-> search.input,
                       top_k |-> search.top_k]
                 ELSE [op |-> "search",
                       query_vec |-> search.query_vec,
                       input |-> search.input,
                       top_k |-> search.top_k,
                       out |-> search_chunks(search.query_vec, search.input,
                                             search.top_k)]
    /\ UNCHANGED <<jobs, papers, chunks, embeddings, uuid, pdfs, clock, running,
                   current_job, observer, bpOf, pc, loc, ret, hist, reply,
                   model,
                   annotations, config>>

\* EmbeddingService.normalize_scores runs on its argument.
NormalizeScores ==
    /\ search.op = "normalize_call"
    /\ search' = [op |-> "normalize",
                  input |-> search.input,
                  out |-> normalize_scores(search.input)]
    /\ UNCHANGED <<jobs, papers, chunks, embeddings, uuid, pdfs, clock, running,
                   current_job, observer, bpOf, pc, loc, ret, hist, reply,
                   model,
                   annotations, config>>

NextSearch ==
    \/ Search
    \/ NormalizeScores

\* The two functions of the search engine, on every input within the bounds.
SpecSearch == InitSearch /\ [][NextSearch]_vars

\* The components of an embedding are float64 or float32 numbers between -1
\* and 1 (the vector has norm 1); some of those drawn are no float32.
Components ==
    {0, 1, One, 0 - One, One - 1, One \div 2 + 8, One \div 2 + 24,
     0 - (One \div 3)}

InitCodec ==
    /\ jobs = <<>>
    /\ papers = [p \in {"p1"} |-> NewPaper]
    /\ chunks = {}
    /\ embeddings = {}
    /\ uuid = 0
    /\ clock = 1
    /\ InitCalls
    /\ pdfs = [p \in {"p1"} |-> GoodPdf]
    /\ observer = [b \in BPs |-> "None"]
    /\ bpOf = [c \in Calls |-> 1]
    /\ reply = NoReply
    /\ model = NoModel
    /\ annotations = {}
    /\ config = InitConfig
    /\ \E v \in SeqsUpTo(Components, MaxDim) :
          search = [op |-> "vector", vector |-> v]

\* EmbeddingService.vector_to_bytes runs on the vector.
VectorToBytes ==
    /\ search.op = "vector"
    /\ search' = [op |-> "bytes",
                  vector |-> search.vector,
                  data |-> vector_to_bytes(search.vector)]
    /\ UNCHANGED <<jobs, papers, chunks, embeddings, uuid, pdfs, clock, running,
                   current_job, observer, bpOf, pc, loc, ret, hist, reply,
                   model,
                   annotations, config>>

\* EmbeddingService.bytes_to_vector runs on the bytes.
BytesToVector ==
    /\ search.op = "bytes"
    /\ Decodable(search.data)
    /\ search' = [op |-> "restored",
                  vector |-> search.vector,
                  data |-> search.data,
                  restored |-> bytes_to_vector(search.data)]
    /\ UNCHANGED <<jobs, papers, chunks, embeddings, uuid, pdfs, clock, running,
                   current_job, observer, bpOf, pc, loc, ret, hist, reply,
                   model,
                   annotations, config>>

NextCodec ==
    \/ VectorToBytes
    \/ BytesToVector

\* A vector is stored as bytes and read back.
SpecCodec == InitCodec /\ [][NextCodec]_vars

\* ------------------------------------------------- the embedding pass
\* _compute_embeddings batch by batch: the loop of lines 205-216 awaits the
\* store once per chunk; here one step is one batch (embed_texts and the
\* add_embedding of each of its chunks).

Min(a, b) == IF a < b THEN a ELSE b

\* Lines 206-207: texts[i:i + batch_size] and chunks[i:i + batch_size]; a
\* slice ends where the list ends.
batch_chunks(cs, i) == SubSeq(cs, i + 1, Min(i + batch_size, Len(cs)))

\* Lines 205-216: one turn of the loop.
EmbedBatch(c) ==
    /\ Quiet
    /\ pc[c] = "handler"
    /\ Route(jobs[loc[c].job].type) = "EMBED"
    /\ LET job_id == loc[c].job
           cs == get_chunks(chunks, jobs[job_id].paper_id)
           i == loc[c].i
           batch == batch_chunks(cs, i)
       IN  /\ ~NoChunks(cs)
           /\ ~NotInstalled(model)
           /\ i < Len(cs)
           /\ embeddings' = embed_first(embeddings, batch, Len(batch), job_id)
           /\ loc' = [loc EXCEPT ![c].i = i + batch_size]
           /\ hist' = Notify([hist EXCEPT !.sent =
                                 (IF i = 0 THEN <<>> ELSE @)
                                     \o <<[k \in DOMAIN batch |-> batch[k].id]>>],
                             c,
                             (IF i = 0 THEN <<StageEvent(100)>> ELSE <<>>)
                                 \o <<StageEvent(embed_progress(i + Len(batch),
                                                                Len(cs)))>>)
    /\ model' = load_model(model)
    /\ UNCHANGED <<jobs, papers, chunks, uuid, pdfs, clock, running, current_job,
                   observer, bpOf, pc, ret, search, reply, annotations, config>>

\* Lines 218-221: range(0, len(texts), batch_size) is used up; the paper is
\* marked and the handler returns.
EmbedDone(c) ==
    /\ Quiet
    /\ pc[c] = "handler"
    /\ Route(jobs[loc[c].job].type) = "EMBED"
    /\ LET paper_id == jobs[loc[c].job].paper_id
           cs == get_chunks(chunks, paper_id)
       IN  /\ ~NoChunks(cs)
           /\ loc[c].i >= Len(cs)
           /\ papers' = update_paper(papers, paper_id,
                                     [embeddings_ready |-> TRUE])
    /\ loc' = [loc EXCEPT ![c].i = 0]
    /\ pc' = [pc EXCEPT ![c] = "complete"]
    /\ hist' = Notify(hist, c, <<StageEvent(1000)>>)
    /\ UNCHANGED <<jobs, chunks, embeddings, uuid, pdfs, clock, running,
                   current_job, observer, bpOf, ret, search, reply, model,
                   annotations, config>>

\* A paper that text extraction has left with n chunks, and two EMBED jobs
\* for it in the queue (two add_job calls).
ChunksOfSize(n) ==
    {[id |-> <<1, k>>, paper_id |-> "p1", chunk_index |-> k - 1] : k \in 1..n}

EmbedJob == [paper_id |-> "p1", type |-> "EMBED", priority |-> 1]

InitEmbed ==
    /\ jobs = add_job(add_job(<<>>, EmbedJob, 1), EmbedJob, 2)
    /\ papers = [p \in {"p1"} |->
                    [NewPaper EXCEPT !.status = "indexed",
                                     !.indexed_at = Some(utcnow)]]
    /\ \E n \in 1..MaxChunks : chunks = ChunksOfSize(n)
    /\ embeddings = {}
    /\ uuid = 1
    /\ clock = 2
    /\ search = NoSearch
    /\ reply = NoReply
    /\ model = NoModel
    /\ annotations = {}
    /\ config = InitConfig
    /\ running = [b \in BPs |-> FALSE]
    /\ current_job = [b \in BPs |-> 0]
    /\ pc = [c \in Calls |-> "idle"]
    /\ loc = [c \in Calls |-> FreshLocals]
    /\ ret = [c \in Calls |-> NoResult]
    /\ hist = [took    |-> [c \in Calls |-> <<>>],
               moves   |-> [c \in Calls |-> <<>>],
               seen    |-> [c \in Calls |-> 0],
               atFail  |-> [c \in Calls |-> {}],
               owed    |-> [c \in Calls |-> {}],
               raised  |-> [c \in Calls |-> 0],
               handled |-> <<0, 0>>,
               stop    |-> FALSE,
               sent    |-> <<>>,
               events  |-> <<>>]
    /\ pdfs = [p \in {"p1"} |-> GoodPdf]
    /\ observer = [b \in BPs |-> "None"]
    /\ bpOf = [c \in Calls |-> 1]

NextEmbed ==
    \/ RunBatch(1)
    \/ Fetch(1)
    \/ MarkRunning(1)
    \/ Lookup(1)
    \/ EmbedBatch(1)
    \/ EmbedDone(1)
    \/ MarkCompleted(1)
    \/ Exit(1)
    \/ Return(1)

\* One batch run embeds the chunks of a paper twice, no call raising.
SpecEmbed == InitEmbed /\ [][NextEmbed]_vars

\* ------------------------------------------------------------- the API
\* A request carries an Authorization header or none; a header is written as
\* the pieces of its text.  reply holds the request and what it was answered.
Headers ==
    {None, Some(<<>>), Some(<<"tok">>), Some(<<"Bearer ", "tok">>),
     Some(<<"bad">>), Some(<<"Bearer ", "bad">>), Some(<<"Bearer ", "new">>)}

\* (mutant) only the presence of the header is checked.
TokenOfAny(text) == config.auth_token

\* verify_token lines 43-46: the text after "Bearer ", or the whole text.
TokenOf(text) == IF text # <<>> /\ text[1] = "Bearer " THEN Tail(text) ELSE text

\* verify_token, lines 38-52: the status it raises, or 200.
verify_token(authorization) ==
    IF authorization = None \/ authorization = Some(<<>>) THEN 401
    ELSE IF TokenOf(authorization[1]) # config.auth_token THEN 401
    ELSE 200

Answer(endpoint, authorization, code, body) ==
    [op |-> endpoint, authorization |-> authorization, code |-> code,
     body |-> body]

\* (mutant) the statuses are counted as present or not.
count_present(js, st) ==
    IF \E j \in DOMAIN js : js[j].status = st THEN 1 ELSE 0

\* get_batch_status lines 390-394 and 402-405: SELECT status, COUNT(*) ...
\* GROUP BY status, and 0 for a status without a row.
count_status(js, st) == Cardinality({j \in DOMAIN js : js[j].status = st})

\* Database.get_batch_status, lines 388-407, with a row that the second
\* SELECT (status = 'running' LIMIT 1) may give, 0 when it gives none.
get_batch_status(js, current) ==
    [pending |-> count_status(js, "pending"),
     running |-> count_status(js, "running"),
     completed |-> count_status(js, "completed"),
     failed |-> count_status(js, "failed"),
     current_job |-> IF current = 0 THEN None
                     ELSE Some([id |-> current, status |-> js[current].status])]

\* The rows the second SELECT can give: LIMIT 1 without ORDER BY takes any.
CurrentRows(js) ==
    IF \E j \in DOMAIN js : js[j].status = "running"
    THEN {j \in DOMAIN js : js[j].status = "running"}
    ELSE {0}

\* (mutant) a batch keeps the connection to itself until it returns.
StoreHeldByBatch == \A c \in Calls : ~Active(c)

\* Whether the connection takes a statement of a request now.  run_batch
\* takes no lock, and no store call of it leaves a statement waiting: each
\* awaits its execute and its commit before it returns (database.py lines
\* 384-386), and the connection runs the statements of all coroutines in the
\* order they come.
StoreFree == TRUE

\* GET /batch/status, lines 315-319; the two SELECTs with nothing between.
BatchStatus(authorization) ==
    /\ Quiet
    /\ StoreFree
    /\ IF verify_token(authorization) = 401
       THEN reply' = Answer("/batch/status", authorization, 401, None)
       ELSE \E current \in CurrentRows(jobs) :
               reply' = Answer("/batch/status", authorization, 200,
                               get_batch_status(jobs, current))
    /\ UNCHANGED <<jobs, papers, chunks, embeddings, uuid, pdfs, clock, running,
                   current_job, observer, bpOf, pc, loc, ret, hist, search,
                   model,
                   annotations, config>>

\* GET /papers/list, lines 173-180, and Database.list_papers: the rows of the
\* papers table (here their ids).
ListPapers(authorization) ==
    /\ Quiet
    /\ StoreFree
    /\ reply' = IF verify_token(authorization) = 401
                THEN Answer("/papers/list", authorization, 401, None)
                ELSE Answer("/papers/list", authorization, 200, DOMAIN papers)
    /\ UNCHANGED <<jobs, papers, chunks, embeddings, uuid, pdfs, clock, running,
                   current_job, observer, bpOf, pc, loc, ret, hist, search,
                   model, annotations, config>>

\* Database.get_batch_status lines 390-394: the first SELECT has been
\* answered, and the coroutine awaits the second; reply holds the counts.
CountStatuses ==
    /\ Quiet
    /\ StoreFree
    /\ reply.op # "get_batch_status"
    /\ reply' = [op |-> "get_batch_status", body |-> get_batch_status(jobs, 0)]
    /\ UNCHANGED <<jobs, papers, chunks, embeddings, uuid, pdfs, clock, running,
                   current_job, observer, bpOf, pc, loc, ret, hist, search,
                   model, annotations, config>>

\* Lines 396-407 and GET /batch/status: the second SELECT is answered from
\* the rows as they are now, and the result is put together.
CurrentJob ==
    /\ Quiet
    /\ StoreFree
    /\ reply.op = "get_batch_status"
    /\ \E current \in CurrentRows(jobs) :
          reply' = Answer("/batch/status", Some(<<"Bearer ", "tok">>), 200,
                          [reply.body EXCEPT !.current_job =
                              get_batch_status(jobs, current).current_job])
    /\ UNCHANGED <<jobs, papers, chunks, embeddings, uuid, pdfs, clock, running,
                   current_job, observer, bpOf, pc, loc, ret, hist, search,
                   model, annotations, config>>

\* A paper is added and its three jobs enqueued; one client calls /batch/run.
NextOne ==
    \/ EnqueuePaperJob
    \/ RunBatch(1)
    \/ Step(1)
    \/ Return(1)

\* POST /jobs/enqueue, lines 328-338: add_job with a new id.
EnqueueJob(job, authorization) ==
    /\ Quiet
    /\ Len(jobs) < MaxJobs
    /\ IF verify_token(authorization) = 401
       THEN /\ reply' = Answer("/jobs/enqueue", authorization, 401, None)
            /\ UNCHANGED <<jobs, clock, hist>>
       ELSE /\ \E tick \in {0, 1} :
                  /\ clock' = clock + tick
                  /\ jobs' = add_job(jobs, job, clock')
            /\ hist' = [hist EXCEPT !.handled = Append(@, 0),
                                    !.owed = [c \in Calls |->
                                                IF Active(c)
                                                THEN @[c] \cup {Len(jobs) + 1}
                                                ELSE @[c]]]
            /\ reply' = Answer("/jobs/enqueue", authorization, 200,
                               Len(jobs) + 1)
    /\ UNCHANGED <<papers, chunks, embeddings, uuid, pdfs, running, current_job,
                   observer, bpOf, pc, loc, ret, search, model, annotations,
                   config>>

\* Database.connect, lines 98-112, never runs PRAGMA foreign_keys = ON, and
\* SQLite leaves foreign keys unenforced unless it is run: the ON DELETE
\* CASCADE clauses of the schema (lines 40, 51, 58, 73) take no effect.
foreign_keys == FALSE

\* Database.delete_paper, lines 196-199: DELETE FROM papers WHERE id = ?.
delete_paper(ps, paper_id) == [p \in DOMAIN ps \ {paper_id} |-> ps[p]]

\* DELETE /papers/{paper_id}, lines 192-205: the PDF file is removed, then
\* the papers row; no statement touches another table.
DeletePaper(paper_id, authorization) ==
    /\ Quiet
    /\ ~foreign_keys
    /\ IF verify_token(authorization) = 401
       THEN /\ reply' = Answer("/papers/delete", authorization, 401, None)
            /\ UNCHANGED <<papers, pdfs>>
       ELSE IF get_paper(papers, paper_id) = NoPaper
       THEN /\ reply' = Answer("/papers/delete", authorization, 404, None)
            /\ UNCHANGED <<papers, pdfs>>
       ELSE /\ pdfs' = [p \in DOMAIN pdfs |->
                          IF p = paper_id THEN [pdfs[p] EXCEPT !.exists = FALSE]
                          ELSE pdfs[p]]
            /\ papers' = delete_paper(papers, paper_id)
            /\ reply' = Answer("/papers/delete", authorization, 200, paper_id)
    /\ UNCHANGED <<jobs, chunks, embeddings, uuid, clock, running, current_job,
                   observer, bpOf, pc, loc, ret, hist, search, model,
                   annotations, config>>

\* Database.save_annotation, lines 202-242: UPDATE of the row with the id
\* when there is one (paper_id is kept), INSERT otherwise.
save_annotation(as, a) ==
    IF \E r \in as : r.id = a.id
    THEN {IF r.id = a.id THEN [r EXCEPT !.text_content = a.text_content] ELSE r :
            r \in as}
    ELSE as \cup {a}

\* POST /annotations/save, lines 239-246.
SaveAnnotation(a, authorization) ==
    /\ Quiet
    /\ IF verify_token(authorization) = 401
       THEN /\ reply' = Answer("/annotations/save", authorization, 401, None)
            /\ UNCHANGED annotations
       ELSE /\ annotations' = save_annotation(annotations, a)
            /\ reply' = Answer("/annotations/save", authorization, 200, a.id)
    /\ UNCHANGED <<jobs, papers, chunks, embeddings, uuid, pdfs, clock, running,
                   current_job, observer, bpOf, pc, loc, ret, hist, search,
                   model, config>>

\* POST /config/update, lines 473-484; reply keeps the request's fields.
UpdateConfig(gemini_api_key, storage_dir, authorization) ==
    /\ Quiet
    /\ IF verify_token(authorization) = 401
       THEN /\ reply' = Answer("/config/update", authorization, 401, None)
            /\ UNCHANGED config
       ELSE /\ config' = update_config(config, gemini_api_key, storage_dir)
            /\ reply' = Answer("/config/update", authorization, 200,
                               [gemini_api_key |-> gemini_api_key,
                                storage_dir |-> storage_dir])
    /\ UNCHANGED <<jobs, papers, chunks, embeddings, uuid, pdfs, clock, running,
                   current_job, observer, bpOf, pc, loc, ret, hist, search,
                   model, annotations>>

\* POST /config/regenerate-token, lines 494-498, and Config.regenerate_token:
\* a new random token replaces the old one ("new" is the one after "tok").
RegenerateToken(authorization) ==
    /\ Quiet
    /\ IF verify_token(authorization) = 401
       THEN /\ reply' = Answer("/config/regenerate-token", authorization, 401,
                               None)
            /\ UNCHANGED config
       ELSE /\ config.auth_token = <<"tok">>
            /\ config' = save([config EXCEPT !.auth_token = <<"new">>])
            /\ reply' = Answer("/config/regenerate-token", authorization, 200,
                               <<"new">>)
    /\ UNCHANGED <<jobs, papers, chunks, embeddings, uuid, pdfs, clock, running,
                   current_job, observer, bpOf, pc, loc, ret, hist, search,
                   model, annotations>>

Notes ==
    {[id |-> "a1", paper_id |-> "p1", text_content |-> t] : t \in {"x", "y"}}

NextAuth ==
    \E authorization \in Headers :
       \/ \E job \in ManualJobs : EnqueueJob(job, authorization)
       \/ DeletePaper("p1", authorization)
       \/ \E a \in Notes : SaveAnnotation(a, authorization)
       \/ UpdateConfig(Some("key"), None, authorization)
       \/ RegenerateToken(authorization)
       \/ BatchStatus(authorization)

\* Requests with every kind of Authorization header.
SpecAuth == Init /\ [][NextAuth]_vars

\* The library of InitDocs with the PDF of "p2" on disk, and requests to
\* process "p2" again (POST /jobs/enqueue by a paired client).
InitLibrary ==
    /\ jobs = <<>>
    /\ papers = [p \in {"p1", "p2"} |->
                    IF p = "p1" THEN NewPaper
                    ELSE [NewPaper EXCEPT !.status = "indexed",
                                          !.indexed_at = Some(utcnow),
                                          !.embeddings_ready = TRUE]]
    /\ chunks = {OldChunk}
    /\ embeddings = {[chunk_id |-> OldChunk.id, by |-> 0]}
    /\ uuid = 0
    /\ clock = 1
    /\ search = NoSearch
    /\ reply = NoReply
    /\ model = NoModel
    /\ annotations = {}
    /\ config = InitConfig
    /\ InitCalls
    /\ pdfs = [p \in {"p1", "p2"} |-> IF p = "p1" THEN GoodPdf ELSE PlainPdf]
    /\ observer = [b \in BPs |-> "None"]
    /\ bpOf = [c \in Calls |-> 1]

ReprocessJobs ==
    { [paper_id |-> "p2", type |-> "EXTRACT_TEXT", priority |-> 10],
      [paper_id |-> "p2", type |-> "EMBED", priority |-> 1] }

NextReprocess ==
    \/ \E job \in ReprocessJobs : EnqueueJob(job, Some(<<"Bearer ", "tok">>))
    \/ RunBatch(1)
    \/ Step(1)
    \/ Return(1)

\* A paper that was indexed and embedded is processed again.
SpecReprocess == InitLibrary /\ [][NextReprocess]_vars

\* Two papers have been added by two /papers/add requests; each request goes
\* on to enqueue_paper_jobs for its paper, one add_job at a time.
InitTwoPapers ==
    /\ jobs = <<>>
    /\ papers = [p \in {"p1", "p2"} |-> NewPaper]
    /\ chunks = {}
    /\ embeddings = {}
    /\ uuid = 0
    /\ clock = 1
    /\ search = NoSearch
    /\ reply = NoReply
    /\ model = NoModel
    /\ annotations = {}
    /\ config = InitConfig
    /\ InitCalls
    /\ pdfs = [p \in {"p1", "p2"} |-> GoodPdf]
    /\ observer = [b \in BPs |-> "None"]
    /\ bpOf = [c \in Calls |-> 1]

\* enqueue_paper_jobs lines 226-233 for paper_id: the next add_job of its loop.
\* (The clock has advanced since the last row: rows stamped alike are
\* fetched in the order of their insertion, as rows stamped in turn are.)
EnqueuePaperJobOf(paper_id) ==
    /\ Quiet
    /\ LET n == Cardinality({j \in DOMAIN jobs : jobs[j].paper_id = paper_id})
       IN  /\ n < Len(PaperJobs)
           /\ clock' = clock + 1
           /\ jobs' = add_job(jobs,
                              [PaperJobs[n + 1] EXCEPT !.paper_id = paper_id],
                              clock')
    /\ hist' = [hist EXCEPT !.handled = Append(@, 0),
                            !.owed = [c \in Calls |->
                                        IF Active(c)
                                        THEN @[c] \cup {Len(jobs) + 1}
                                        ELSE @[c]]]
    /\ UNCHANGED <<papers, chunks, embeddings, uuid, pdfs, running, current_job,
                   observer, bpOf, pc, loc, ret, search, reply, model,
                   annotations, config>>

NextTwoPapers ==
    \/ \E paper_id \in {"p1", "p2"} : EnqueuePaperJobOf(paper_id)
    \/ RunBatch(1)
    \/ Step(1)
    \/ Return(1)

\* Two ingestions interleave with each other and with a batch.
SpecTwoPapers == InitTwoPapers /\ [][NextTwoPapers]_vars

NextDelete ==
    \/ \E job \in ReprocessJobs : EnqueueJob(job, Some(<<"Bearer ", "tok">>))
    \/ SaveAnnotation([id |-> "a2", paper_id |-> "p2", text_content |-> "x"],
                      Some(<<"Bearer ", "tok">>))
    \/ DeletePaper("p2", Some(<<"Bearer ", "tok">>))
    \/ RunBatch(1)
    \/ Step(1)
    \/ Return(1)

\* A paper with chunks, an embedding, annotations and jobs is deleted.
SpecDelete == InitLibrary /\ [][NextDelete]_vars

\* What the embedding model gives for a text, written bytes included.  The
\* model is a function of the text, and a chunk keeps its text as long as it
\* has its id, so the vector of an embeddings row is told from its chunk: one
\* unit vector for chunks at even places, another at odd places.
embed_text(chunk_index) ==
    IF chunk_index % 2 = 0 THEN <<One, 0>> ELSE <<0, One>>

\* Database.get_embeddings, lines 324-340: the chunks of the paper that have
\* an embeddings row (JOIN ... ON c.id = e.chunk_id), ORDER BY page,
\* chunk_index, each with its vector.
get_embeddings(cs, es, paper_id) ==
    LET joined == SelectSeq(get_chunks(cs, paper_id),
                            LAMBDA c : \E e \in es : e.chunk_id = c.id)
    IN  [i \in DOMAIN joined |->
            [id |-> joined[i].id,
             vector |-> vector_to_bytes(embed_text(joined[i].chunk_index))]]

\* POST /search/semantic, lines 271-303.  The query is embedded as a text at
\* an even place is; embed_text may raise, and the server answers 500.
SemanticSearch(paper_id, top_k, authorization) ==
    /\ Quiet
    /\ LET paper == get_paper(papers, paper_id)
           chunks_with_embeddings == get_embeddings(chunks, embeddings, paper_id)
           query_vec == embed_text(0)
           answer(code, body) ==
               Answer("/search/semantic", authorization, code, body)
       IN  IF verify_token(authorization) = 401
           THEN reply' = answer(401, None) /\ UNCHANGED model
           ELSE IF paper = NoPaper
           THEN reply' = answer(404, None) /\ UNCHANGED model
           ELSE IF ~paper.embeddings_ready
           THEN reply' = answer(400, None) /\ UNCHANGED model
           ELSE IF chunks_with_embeddings = <<>>
           THEN reply' = answer(400, None) /\ UNCHANGED model
           ELSE IF NotInstalled(model)
           THEN reply' = answer(500, None) /\ UNCHANGED model
           ELSE \/ /\ reply' = answer(500, None)
                   /\ model' \in ModelAfterRaise(model)
                \/ /\ model' = load_model(model)
                   /\ reply' =
                         IF search_raises(query_vec, chunks_with_embeddings)
                         THEN answer(500, None)
                         ELSE answer(200, normalize_scores(
                                 search_chunks(query_vec, chunks_with_embeddings,
                                               top_k)))
    /\ UNCHANGED <<jobs, papers, chunks, embeddings, uuid, pdfs, clock, running,
                   current_job, observer, bpOf, pc, loc, ret, hist, search,
                   annotations, config>>

\* The client of the searches is paired; it asks for one result, for the
\* default of 50, or for -1.
NextServe ==
    \/ NextOne
    \/ EmbedRaisesLate(1)
    \/ \E paper_id \in {"p1", "p2"}, top_k \in {0 - 1, 1, 50} :
          SemanticSearch(paper_id, top_k, Some(<<"Bearer ", "tok">>))

\* The library holds an embedded paper; a new one is added and processed
\* while searches are made.
SpecServe == InitDocs /\ [][NextServe]_vars

\* --------------------------------------------- no embedding capability
\* The library of InitDocs on a machine where sentence-transformers is not
\* installed ("p2" was embedded elsewhere, or before it was removed).
InitNoModel ==
    /\ jobs = <<>>
    /\ papers = [p \in {"p1", "p2"} |->
                    IF p = "p1" THEN NewPaper
                    ELSE [NewPaper EXCEPT !.status = "indexed",
                                          !.indexed_at = Some(utcnow),
                                          !.embeddings_ready = TRUE]]
    /\ chunks = {OldChunk}
    /\ embeddings = {[chunk_id |-> OldChunk.id, by |-> 0]}
    /\ uuid = 0
    /\ clock = 1
    /\ search = NoSearch
    /\ reply = NoReply
    /\ model = [NoModel EXCEPT !.installed = FALSE]
    /\ annotations = {}
    /\ config = InitConfig
    /\ InitCalls
    /\ pdfs \in [{"p1"} -> PdfKinds]
    /\ observer = [b \in BPs |-> "None"]
    /\ bpOf = [c \in Calls |-> 1]

\* A paper is added and processed where the capability is missing.
SpecNoModel == InitNoModel /\ [][NextOne]_vars

\* ------------------------------------------------ papers that are gone
\* The library of InitLibrary after the PDF file of "p2" has been removed
\* from the disk; there is no paper "p3".  POST /jobs/enqueue (lines 328-338)
\* looks at neither the papers table nor the disk.
InitMissing ==
    /\ jobs = <<>>
    /\ papers = [p \in {"p1", "p2"} |->
                    IF p = "p1" THEN NewPaper
                    ELSE [NewPaper EXCEPT !.status = "indexed",
                                          !.indexed_at = Some(utcnow),
                                          !.embeddings_ready = TRUE]]
    /\ chunks = {OldChunk}
    /\ embeddings = {[chunk_id |-> OldChunk.id, by |-> 0]}
    /\ uuid = 0
    /\ clock = 1
    /\ search = NoSearch
    /\ reply = NoReply
    /\ model = NoModel
    /\ annotations = {}
    /\ config = InitConfig
    /\ InitCalls
    /\ pdfs = [p \in {"p1", "p2"} |->
                  IF p = "p1" THEN GoodPdf
                  ELSE [PlainPdf EXCEPT !.exists = FALSE]]
    /\ observer = [b \in BPs |-> "None"]
    /\ bpOf = [c \in Calls |-> 1]

MissingJobs ==
    { [paper_id |-> p, type |-> t, priority |-> 1] :
         p \in {"p2", "p3"}, t \in {"EXTRACT_TEXT", "EXTRACT_DOI", "EMBED"} }
      \cup { [paper_id |-> "p1", type |-> "EXTRACT_DOI", priority |-> 1] }

NextMissing ==
    \/ \E job \in MissingJobs : EnqueueJob(job, Some(<<"Bearer ", "tok">>))
    \/ RunBatch(1)
    \/ Step(1)
    \/ Return(1)

\* Jobs are enqueued for a paper without its file and for no paper at all.
SpecMissing == InitMissing /\ [][NextMissing]_vars

\* ------------------------------------------------------ an observer
\* A PDF whose chunks take two embedding batches.
LongPdf == [exists |-> TRUE, blocks |-> batch_size + 1, doi_match |-> None]

\* set_progress_callback (lines 32-34) has been called with a callback that
\* keeps the events it is given and never raises.
InitObserved ==
    /\ InitStore
    /\ InitCalls
    /\ pdfs \in [{"p1"} -> PdfKinds \cup {LongPdf}]
    /\ observer = [b \in BPs |-> "log"]
    /\ bpOf = [c \in Calls |-> 1]

\* A paper is added and processed while an observer listens.
SpecObserved == InitObserved /\ [][NextOne]_vars

\* ------------------------------------------------------ configuration
\* A direct call of Config.set_storage_dir; reply keeps the call.
SetStorageDir(path) ==
    /\ Quiet
    /\ config' = set_storage_dir(config, path)
    /\ reply' = [op |-> "set_storage_dir", path |-> path]
    /\ UNCHANGED <<jobs, papers, chunks, embeddings, uuid, pdfs, clock, running,
                   current_job, observer, bpOf, pc, loc, ret, hist, search,
                   model, annotations>>

NextConfig ==
    \/ \E gemini_api_key \in {None, Some("k1"), Some("k2")},
          storage_dir \in {None, Some(""), Some("d1"), Some("d2")},
          authorization \in Headers :
          UpdateConfig(gemini_api_key, storage_dir, authorization)
    \/ \E path \in {"d1", "d2"} : SetStorageDir(path)
    \/ \E authorization \in Headers : RegenerateToken(authorization)

\* The configuration is changed, request after request.
SpecConfig == Init /\ [][NextConfig]_vars

\* The menu's "Stop Server", menubar.py lines 93-99: stop_server shows a
\* notification and nothing else.  BatchProcessor has no stop signal: no
\* attribute and no method that run_batch could test (lines 46-90), so the
\* request leaves every variable of the program as it is.
StopServer ==
    /\ Quiet
    /\ ~hist.stop
    /\ hist' = [hist EXCEPT !.stop = TRUE]
    /\ UNCHANGED <<jobs, papers, chunks, embeddings, uuid, pdfs, clock, running,
                   current_job, observer, bpOf, pc, loc, ret, search, reply,
                   model,
                   annotations, config>>

NextStop ==
    \/ NextOne
    \/ StopServer

\* The user asks for a stop before or while a batch runs.
SpecStop == Init /\ [][NextStop]_vars

NextStatus ==
    \/ NextOne
    \/ \E authorization \in Headers : BatchStatus(authorization)
    \/ ListPapers(Some(<<"tok">>))

\* The queue is asked for its status while a batch runs.
SpecStatus == Init /\ [][NextStatus]_vars

NextPoll ==
    \/ NextOne
    \/ CountStatuses
    \/ CurrentJob

\* The same, with the two statements of get_batch_status as two steps: the
\* batch may make a store call between them.
SpecPoll == Init /\ [][NextPoll]_vars

\* ================================================================ claims
Rows == DOMAIN jobs
Pending == {j \in Rows : jobs[j].status = "pending"}
Terminal == {"completed", "failed"}
Returned(c) == pc[c] = "done" /\ ret[c].status = "completed"
Range(q) == {q[i] : i \in DOMAIN q}
MovesTo(c, st) == SelectSeq(hist.moves[c], LAMBDA m : m[2] = st)

\* C1: while one run_batch call is active on a BatchProcessor, a step that
\* starts another run_batch call on it ends that call at once with the busy
\* result, and changes no job row (nor a paper row, nor the run flag).
C1_BusyWhileActive ==
    [][\A c \in Calls :
          ( /\ pc[c] = "idle"
            /\ pc'[c] # "idle"
            /\ \E d \in Calls \ {c} : Active(d) /\ bpOf[d] = bpOf[c] )
          => ( /\ pc'[c] = "done"
               /\ ret'[c] = BusyResult
               /\ jobs' = jobs
               /\ papers' = papers
               /\ running' = running )]_vars

C1_Witness ==
    \E c, d \in Calls :
        /\ pc[c] = "done"
        /\ ret[c] = BusyResult
        /\ pc[d] = "handler"
        /\ jobs[loc[d].job].status = "running"
        /\ Pending # {}

C3_LegalTransitions ==
    [][\A j \in Rows :
          jobs'[j].status # jobs[j].status
          => <<jobs[j].status, jobs'[j].status>> \in
                { <<"pending", "running">>,
                  <<"running", "completed">>,
                  <<"running", "failed">> }]_vars

\* C4: when a stage handler raises, the except branch moves the job from
\* running to failed with an error text and finished_at, and the loop goes on
\* to the next fetch; when the call returns its summary, every job that was
\* pending when a handler raised has been dispatched by this call.
C4_FailureIsolated ==
    [][\A c \in Calls :
          /\ (pc[c] = "fail" /\ pc'[c] # "fail")
             => /\ jobs[loc[c].job].status = "running"
                /\ jobs'[loc[c].job].status = "failed"
                /\ jobs'[loc[c].job].error # NULL
                /\ jobs'[loc[c].job].finished_at # NULL
                /\ pc'[c] = "fetch"
          /\ (pc'[c] = "done" /\ ret'[c].status = "completed")
             => hist'.atFail[c] \subseteq Range(hist'.took[c])]_vars

C4_Witness ==
    \E c \in Calls :
        /\ Returned(c)
        /\ hist.atFail[c] # {}
        /\ Len(hist.moves[c]) >= 4
        /\ hist.moves[c][2][2] = "failed"
        /\ hist.moves[c][4][2] = "completed"

\* C5: get_pending_jobs returns exactly the pending rows, each once, ordered
\* by priority descending and, among equal priorities, in enqueue order.
C5_PendingOrder ==
    LET r == get_pending_jobs(jobs)
    IN  /\ Range(r) = Pending
        /\ Len(r) = Cardinality(Pending)
        /\ \A i, k \in DOMAIN r :
              i < k => \/ jobs[r[i]].priority > jobs[r[k]].priority
                       \/ /\ jobs[r[i]].priority = jobs[r[k]].priority
                          /\ r[i] < r[k]

C5_Witness ==
    \E j, k \in Pending :
        /\ j < k
        /\ jobs[j].priority < jobs[k].priority
        /\ get_pending_jobs(jobs) = <<k, j>>

\* C6 (as claimed): no job is started while a job of strictly higher priority
\* is pending.
C6_NoHigherPendingAtStart ==
    [][\A c \in Calls :
          (pc[c] = "mark" /\ pc'[c] = "lookup")
          => ~ \E k \in Pending :
                  jobs[k].priority > jobs[loc[c].job].priority]_vars

\* C6 (amended): the job a fetch picks is pending, has the greatest priority
\* among the jobs pending at that fetch and is the earliest enqueued of that
\* priority; when it is started, a pending job of strictly higher priority
\* is one that was enqueued after that fetch.
C6_HeadOfFetch ==
    [][\A c \in Calls :
          /\ (pc[c] = "fetch" /\ pc'[c] = "mark")
             => /\ loc'[c].job \in Pending
                /\ \A k \in Pending :
                      \/ jobs[k].priority < jobs[loc'[c].job].priority
                      \/ /\ jobs[k].priority = jobs[loc'[c].job].priority
                         /\ jobs[k].created_at >= jobs[loc'[c].job].created_at
                         /\ k >= loc'[c].job
          /\ (pc[c] = "mark" /\ pc'[c] = "lookup")
             => \A k \in Pending :
                   jobs[k].priority > jobs[loc[c].job].priority
                   => k > hist.seen[c]]_vars

C6_Witness ==
    \E c \in Calls :
        /\ pc[c] = "lookup"
        /\ jobs[loc[c].job].status = "running"
        /\ \E k \in Pending :
              /\ jobs[k].priority > jobs[loc[c].job].priority
              /\ k > hist.seen[c]

\* C7 (as claimed): of two runners that try to start the same job at most
\* one succeeds and runs its handler: no job's handler is entered twice, and
\* no two calls hold the same job between its start and its end.
C7_OneRunnerPerJob ==
    /\ \A j \in Rows : hist.handled[j] <= 1
    /\ \A c, d \in Calls :
          ( /\ c # d
            /\ pc[c] \in {"lookup", "handler", "complete"}
            /\ pc[d] \in {"lookup", "handler", "complete"} )
          => loc[c].job # loc[d].job

\* C8: a job that is completed or failed is never set back to pending or
\* running, and no job's stage handler is entered more than once, over any
\* number of run_batch calls on the one BatchProcessor.
C8_NoRedispatch ==
    [][\A j \in Rows :
          /\ jobs[j].status \in Terminal
             => jobs'[j].status \notin {"pending", "running"}
          /\ hist'.handled[j] <= 1]_vars

C8_Witness ==
    /\ \E j \in Rows : jobs[j].status = "failed" /\ hist.handled[j] = 1
    /\ \E c \in Calls : pc[c] = "exit" /\ hist.took[c] = <<>>

\* C9: every run_batch call that took the flag comes back to its caller
\* (with its summary, or with the exception of a store call), and when it
\* returns its summary every job that was pending when it started, and every
\* job enqueued since and before its last pending fetch, is completed or
\* failed.
C9_DrainsAndReturns ==
    /\ \A c \in Calls : Active(c) ~> pc[c] = "done"
    /\ [](\A c \in Calls :
            Returned(c)
            => \A j \in hist.owed[c] :
                  j <= hist.seen[c] => jobs[j].status \in Terminal)

C9_Witness ==
    \E c \in Calls :
        /\ Returned(c)
        /\ hist.seen[c] >= 2
        /\ Len(hist.took[c]) >= 2
        /\ Cardinality(hist.owed[c]) >= 2

\* C10: in a returned summary, processed is the number of jobs this call
\* moved to completed, failed the number it moved to failed, their sum the
\* number of jobs it dispatched; errors is None exactly when failed is 0, and
\* otherwise lists one {job_id, error} per failure, in the order of failure,
\* with the error text the job row holds.
C10_SummaryCounts ==
    \A c \in Calls :
        Returned(c)
        => LET r == ret[c]
               done == MovesTo(c, "completed")
               bad == MovesTo(c, "failed")
           IN  /\ r.processed = Len(done)
               /\ r.failed = Len(bad)
               /\ r.processed + r.failed = Len(hist.took[c])
               /\ (r.failed = 0) <=> (r.errors = None)
               /\ r.failed > 0
                  => /\ Len(r.errors) = 1
                     /\ Len(r.errors[1]) = Len(bad)
                     /\ \A i \in DOMAIN bad :
                           /\ r.errors[1][i].job_id = bad[i][1]
                           /\ jobs[bad[i][1]].error = Some(r.errors[1][i].error)
                           /\ jobs[bad[i][1]].status = "failed"

C10_Witness ==
    \E c \in Calls :
        /\ Returned(c)
        /\ ret[c].processed = 1
        /\ ret[c].failed = 1

\* C11 (as claimed): an observer that raises changes no outcome: no job is
\* failed for the observer's exception (without an observer every job that
\* fails holds the error of its lookup or of its stage handler), and no
\* summary counts such a failure.
C11_ObserverChangesNothing ==
    /\ \A j \in Rows : jobs[j].error # Some("observer error")
    /\ \A c \in Calls :
          Returned(c)
          => \A i \in DOMAIN loc[c].errors :
                loc[c].errors[i].error # "observer error"

\* C12: a run_batch call that dispatches the paper's three standard jobs, with
\* no collaborator raising on a PDF that has text, runs them in the order
\* EXTRACT_TEXT, EXTRACT_DOI, EMBED, returns processed = 3 and failed = 0, and
\* leaves the paper 'indexed' with embeddings_ready set.
C12_StandardPipeline ==
    \A c \in Calls :
        ( /\ Returned(c)
          /\ Len(hist.took[c]) = 3
          /\ hist.raised[c] = 0 )
        => /\ [i \in 1..3 |-> jobs[hist.took[c][i]].type]
                 = <<"EXTRACT_TEXT", "EXTRACT_DOI", "EMBED">>
           /\ ret[c].processed = 3
           /\ ret[c].failed = 0
           /\ papers["p1"].status = "indexed"
           /\ papers["p1"].embeddings_ready

C12_Witness ==
    \E c \in Calls :
        /\ Returned(c)
        /\ hist.took[c] = <<1, 2, 3>>
        /\ hist.owed[c] = {1, 2, 3}
        /\ hist.seen[c] = 3
        /\ hist.raised[c] = 0
        /\ ret[c].processed = 3
        /\ papers["p1"].embeddings_ready

\* Claims about one stage handler: the step of call c that runs the handler
\* of a job of the given type, and the paper of that job.
HandlerStep(c, type) ==
    /\ pc[c] = "handler"
    /\ pc'[c] # "handler"
    /\ jobs[loc[c].job].type = type
ChunksOf(cs, p) == {r \in cs : r.paper_id = p}
PaperOf(c) == jobs[loc[c].job].paper_id

\* C13: a step sets a paper's embeddings_ready only as the EMBED handler of
\* one of its jobs returning, and then every chunk the paper had when the
\* handler started has an embedding written by that job's pass; when the
\* handler raises, at whatever point, the flag is left as it was and the job
\* is marked failed.
C13_ReadyOnlyWhenAllEmbedded ==
    [][/\ \A p \in DOMAIN papers :
             (papers'[p].embeddings_ready /\ ~papers[p].embeddings_ready)
             => \E c \in Calls :
                   HandlerStep(c, "EMBED") /\ PaperOf(c) = p /\ pc'[c] = "complete"
       /\ \A c \in Calls :
             HandlerStep(c, "EMBED")
             => IF pc'[c] = "complete"
                THEN /\ papers'[PaperOf(c)].embeddings_ready
                     /\ \A r \in ChunksOf(chunks, PaperOf(c)) :
                           [chunk_id |-> r.id, by |-> loc[c].job] \in embeddings'
                ELSE /\ pc'[c] = "fail"
                     /\ papers' = papers
       /\ \A c \in Calls :
             (pc[c] = "fail" /\ pc'[c] # "fail")
             => jobs'[loc[c].job].status = "failed"]_vars

C13_Witness ==
    \E c \in Calls :
        /\ pc[c] = "complete"
        /\ jobs[loc[c].job].type = "EMBED"
        /\ papers["p1"].embeddings_ready
        /\ Cardinality(ChunksOf(chunks, "p1")) = 2
        /\ \A r \in ChunksOf(chunks, "p1") :
              [chunk_id |-> r.id, by |-> loc[c].job] \in embeddings

\* C14: the EMBED handler of a paper that has no chunk raises: it writes no
\* embedding row, the paper's embeddings_ready is false after it, and the job
\* is then marked failed with an error text.
C14_EmbedWithoutChunksFails ==
    [][\A c \in Calls :
          /\ (HandlerStep(c, "EMBED") /\ ChunksOf(chunks, PaperOf(c)) = {})
             => /\ pc'[c] = "fail"
                /\ embeddings' = embeddings
                /\ ~papers'[PaperOf(c)].embeddings_ready
          /\ ( /\ pc[c] = "fail"
               /\ pc'[c] # "fail"
               /\ jobs[loc[c].job].type = "EMBED" )
             => /\ jobs'[loc[c].job].status = "failed"
                /\ jobs'[loc[c].job].error # NULL]_vars

C14_Witness ==
    \E j \in Rows :
        /\ jobs[j].type = "EMBED"
        /\ jobs[j].status = "failed"
        /\ jobs[j].error = Some("No chunks found")
        /\ ChunksOf(chunks, "p1") = {}
        /\ ~papers["p1"].embeddings_ready

\* C15: when the EXTRACT_TEXT handler returns on a PDF that has text, the
\* paper's chunks are as many as the PDF has text blocks and none of them was
\* in the table before, no chunk with a new id belongs to another paper, the
\* paper is 'indexed' with indexed_at set, and the chunks of every other
\* paper are as they were.
C15_ReplaceAllChunks ==
    [][\A c \in Calls :
          ( /\ HandlerStep(c, "EXTRACT_TEXT")
            /\ pc'[c] = "complete"
            /\ pdfs[PaperOf(c)].blocks > 0 )
          => LET p == PaperOf(c)
                 old == {r.id : r \in chunks}
             IN  /\ Cardinality(ChunksOf(chunks', p)) = pdfs[p].blocks
                 /\ \A r \in ChunksOf(chunks', p) : r.id \notin old
                 /\ \A r \in chunks' : r.id \notin old => r.paper_id = p
                 /\ papers'[p].status = "indexed"
                 /\ papers'[p].indexed_at # NULL
                 /\ chunks' \ ChunksOf(chunks', p) = chunks \ ChunksOf(chunks, p)]_vars

C15_Witness ==
    \E c \in Calls :
        /\ pc[c] = "complete"
        /\ jobs[loc[c].job].type = "EXTRACT_TEXT"
        /\ uuid = 2
        /\ ChunksOf(chunks, "p1") # {}
        /\ \A r \in ChunksOf(chunks, "p1") : r.id[1] = 2
        /\ OldChunk \in chunks

\* C16: when the EXTRACT_TEXT handler runs on a PDF without text and its
\* extractor does not raise, the handler returns, the paper's status is
\* 'needs_ocr', no chunk or embedding row is written or deleted, indexed_at
\* and embeddings_ready are as they were, and the job is then marked
\* completed.
C16_NeedsOcrFrame ==
    [][\A c \in Calls :
          /\ ( /\ HandlerStep(c, "EXTRACT_TEXT")
               /\ hist'.raised[c] = hist.raised[c]
               /\ pdfs[PaperOf(c)].blocks = 0 )
             => LET p == PaperOf(c)
                IN  /\ pc'[c] = "complete"
                    /\ papers'[p].status = "needs_ocr"
                    /\ chunks' = chunks
                    /\ embeddings' = embeddings
                    /\ papers'[p].indexed_at = papers[p].indexed_at
                    /\ papers'[p].embeddings_ready = papers[p].embeddings_ready
                    /\ papers'[p].doi = papers[p].doi
                    /\ \A q \in DOMAIN papers \ {p} : papers'[q] = papers[q]
          /\ ( /\ pc[c] = "complete"
               /\ pc'[c] # "complete"
               /\ jobs[loc[c].job].type = "EXTRACT_TEXT" )
             => /\ jobs'[loc[c].job].status = "completed"
                /\ loc'[c].failed = loc[c].failed]_vars

C16_Witness ==
    \E j \in Rows :
        /\ jobs[j].type = "EXTRACT_TEXT"
        /\ jobs[j].status = "completed"
        /\ papers["p1"].status = "needs_ocr"
        /\ papers["p1"].indexed_at # NULL
        /\ ChunksOf(chunks, "p1") # {}

\* C17: a job whose type is none of the three stage types is never marked
\* completed; once a call has dispatched it, it is failed with an error text
\* when that call comes to its next fetch; and a call that returns its
\* summary leaves no such job pending that was in the table at its last fetch.
C17_UnknownTypeFails ==
    \A j \in Rows :
        jobs[j].type \notin {"EXTRACT_TEXT", "EXTRACT_DOI", "EMBED"}
        => /\ jobs[j].status # "completed"
           /\ \A c \in Calls :
                 /\ ( /\ j \in Range(hist.took[c])
                      /\ pc[c] \in {"fetch", "exit", "done"} )
                    => /\ jobs[j].status = "failed"
                       /\ jobs[j].error # NULL
                 /\ (Returned(c) /\ j <= hist.seen[c])
                    => jobs[j].status = "failed"

C17_Witness ==
    \E j \in Rows :
        /\ jobs[j].type = "OCR"
        /\ jobs[j].status = "failed"
        /\ jobs[j].error = Some("Unknown job type")
        /\ \E c \in Calls : Returned(c) /\ ret[c].failed >= 1

\* C18: when the EXTRACT_DOI handler runs and its scan does not raise, the
\* handler returns; with no match the papers table is as it was, with a match
\* the paper's doi is the matched text without its trailing punctuation; the
\* job is then marked completed and the call's failed count is unchanged.
C18_DoiMatchOrNot ==
    [][\A c \in Calls :
          /\ ( /\ HandlerStep(c, "EXTRACT_DOI")
               /\ hist'.raised[c] = hist.raised[c] )
             => LET p == PaperOf(c)
                    match == pdfs[p].doi_match
                IN  /\ pc'[c] = "complete"
                    /\ loc'[c].failed = loc[c].failed
                    /\ chunks' = chunks
                    /\ IF match = None
                       THEN papers' = papers
                       ELSE /\ papers'[p].doi = Some(rstrip(match[1]))
                            /\ papers'[p].doi # Some(<<>>)
          /\ ( /\ pc[c] = "complete"
               /\ pc'[c] # "complete"
               /\ jobs[loc[c].job].type = "EXTRACT_DOI" )
             => /\ jobs'[loc[c].job].status = "completed"
                /\ loc'[c].failed = loc[c].failed]_vars

C18_Witness ==
    \E j, k \in Rows :
        /\ j < k
        /\ jobs[j].type = "EXTRACT_DOI" /\ jobs[j].status = "completed"
        /\ jobs[k].type = "EXTRACT_DOI" /\ jobs[k].status = "completed"
        /\ pdfs["p1"].doi_match = None
        /\ papers["p1"].doi = Some(<<"10.1000/x">>)

\* C19 (as claimed): for every candidate list and every integer top_k, search
\* returns at most max(top_k, 0) results, in non-increasing order of score.
C19_AtMostTopK ==
    search.op = "search"
    => /\ Len(search.out) <= (IF search.top_k > 0 THEN search.top_k ELSE 0)
       /\ \A i, k \in DOMAIN search.out :
             i < k => search.out[i].score >= search.out[k].score

\* C20: normalize_scores returns the results in their order, each with a
\* normalized_score between 0 and 1: 1/2 for all when the scores are all
\* equal, otherwise (score - min) / (max - min), which is 1 at the maximum
\* and 0 at the minimum; the empty list comes back empty.
C20_NormalizedRange ==
    search.op = "normalize"
    => LET in == search.input
           out == search.out
           S == {in[i].score : i \in DOMAIN in}
       IN  /\ Len(out) = Len(in)
           /\ \A i \in DOMAIN out :
                 /\ out[i].id = in[i].id
                 /\ out[i].score = in[i].score
                 /\ out[i].normalized_score.den > 0
                 /\ out[i].normalized_score.num >= 0
                 /\ out[i].normalized_score.num <= out[i].normalized_score.den
                 /\ IF Cardinality(S) = 1
                    THEN out[i].normalized_score = Half
                    ELSE LET lo == CHOOSE x \in S : \A y \in S : x <= y
                             hi == CHOOSE x \in S : \A y \in S : x >= y
                             n == out[i].normalized_score
                         IN  /\ n.num * (hi - lo) = (in[i].score - lo) * n.den
                             /\ in[i].score = hi => n.num = n.den
                             /\ in[i].score = lo => n.num = 0

C20_Witness ==
    /\ search.op = "normalize"
    /\ Len(search.out) = 3
    /\ search.out[1].normalized_score.num = 0
    /\ search.out[2].normalized_score.num = search.out[2].normalized_score.den
    /\ search.out[3].normalized_score.num * 2 = search.out[3].normalized_score.den

\* C21: when a stored vector has another dimension than the query vector,
\* search raises and returns no list; a list that search returns holds only
\* scores of vectors of the query's dimension.
C21_DimensionMismatchRaises ==
    LET dim(c) == Len(c.vector) \div 4
        mismatch == \E i \in DOMAIN search.input :
                       dim(search.input[i]) # Len(search.query_vec)
    IN  /\ search.op = "search" => ~mismatch
        /\ search.op = "search_raised"
           => mismatch /\ "out" \notin DOMAIN search

C21_Witness ==
    /\ search.op = "search_raised"
    /\ Len(search.input) = 3
    /\ Len(search.input[1].vector) = 8
    /\ Len(search.input[2].vector) = 8
    /\ Len(search.input[3].vector) = 12

\* 1e-6 in units of the fixed point, rounded down.
Tolerance == One \div 1000000

\* C22: a vector read back from its bytes has the length of the original and
\* each component within 1e-6 of the original.
C22_RoundTrip ==
    search.op = "restored"
    => /\ Len(search.restored) = Len(search.vector)
       /\ Len(search.data) = 4 * Len(search.vector)
       /\ \A i \in DOMAIN search.vector :
             Abs(search.restored[i] - search.vector[i]) <= Tolerance

C22_Witness ==
    /\ search.op = "restored"
    /\ Len(search.vector) = 2
    /\ search.vector[1] = One - 1
    /\ search.restored[1] = One
    /\ search.vector[2] = 0 - (One \div 3)
    /\ search.restored[2] # search.vector[2]

\* C23: the answer of get_batch_status gives for each of the four statuses
\* the number of job rows in it, and as current_job a row that is running
\* when there is one, and None otherwise.
C23_StatusCounts ==
    [][(reply' # reply /\ reply'.op = "/batch/status" /\ reply'.code = 200)
       => LET in(st) == {j \in Rows : jobs[j].status = st}
              b == reply'.body
          IN  /\ jobs' = jobs
              /\ b.pending = Cardinality(in("pending"))
              /\ b.running = Cardinality(in("running"))
              /\ b.completed = Cardinality(in("completed"))
              /\ b.failed = Cardinality(in("failed"))
              /\ b.pending + b.running + b.completed + b.failed = Len(jobs)
              /\ IF in("running") = {} THEN b.current_job = None
                 ELSE /\ b.current_job # None
                      /\ b.current_job[1].id \in in("running")
                      /\ b.current_job[1].status = "running"]_vars

C23_Witness ==
    /\ reply.op = "/batch/status"
    /\ reply.code = 200
    /\ reply.body.running = 1
    /\ reply.body.pending = 1
    /\ reply.body.current_job # None
    /\ Len(jobs) = 2

\* C24 (as claimed): once a stop is requested, run_batch takes no further
\* pending job to start it; a job it had taken before may go on.
C24_StopStartsNoJob ==
    [][hist.stop
       => \A c \in Calls : ~(pc[c] = "fetch" /\ pc'[c] = "mark")]_vars

\* C25: the embedding model is constructed at most once; once there is a
\* model object, every later embedding call leaves it in place.
C25_ModelBuiltOnce ==
    [][/\ model'.built <= 1
       /\ model.obj # None => model' = model]_vars

C25_Witness ==
    /\ model.built = 1
    /\ reply.op = "/search/semantic"
    /\ reply.code = 200
    /\ \E j \in Rows : jobs[j].type = "EMBED" /\ jobs[j].status = "completed"

\* C26: a request whose Authorization header is missing, empty or carries
\* another token than the configured one, with or without "Bearer ", is
\* answered 401 and changes no table and no configuration.
C26_BadTokenChangesNothing ==
    [][LET a == reply'.authorization
           bad == \/ a = None
                  \/ /\ a[1] # config.auth_token
                     /\ a[1] # <<"Bearer ">> \o config.auth_token
       IN  (reply' # reply /\ bad)
           => /\ reply'.code = 401
              /\ UNCHANGED <<jobs, papers, annotations, config, chunks,
                             embeddings, pdfs>>]_vars

C26_Witness ==
    /\ reply.op = "/papers/delete"
    /\ reply.code = 401
    /\ reply.authorization = Some(<<"Bearer ", "tok">>)
    /\ config.auth_token = <<"new">>
    /\ "p1" \in DOMAIN papers
    /\ Len(jobs) = 1
    /\ annotations # {}

\* C27 (as claimed): in every state, a paper whose embeddings_ready is true
\* has an embeddings row for each of its chunks.
C27_ReadyMeansEmbedded ==
    \A p \in DOMAIN papers :
       papers[p].embeddings_ready
       => \A c \in chunks :
             c.paper_id = p => \E e \in embeddings : e.chunk_id = c.id

\* C28: when a paper's EMBED job is started, the paper has an EXTRACT_TEXT
\* job and every EXTRACT_TEXT job of the paper is completed or failed.
C28_EmbedAfterExtract ==
    [][\A j \in Rows :
          (/\ jobs[j].type = "EMBED"
           /\ jobs[j].status = "pending"
           /\ jobs'[j].status = "running")
          => /\ \E i \in Rows : /\ jobs[i].paper_id = jobs[j].paper_id
                                /\ jobs[i].type = "EXTRACT_TEXT"
             /\ \A i \in Rows :
                   (/\ jobs[i].paper_id = jobs[j].paper_id
                    /\ jobs[i].type = "EXTRACT_TEXT")
                   => jobs[i].status \in Terminal]_vars

C28_Witness ==
    /\ \E j \in Rows : /\ jobs[j].type = "EMBED"
                       /\ jobs[j].paper_id = "p1"
                       /\ jobs[j].status = "running"
    /\ \E j \in Rows : /\ jobs[j].type = "EXTRACT_TEXT"
                       /\ jobs[j].paper_id = "p2"
                       /\ jobs[j].status \in Terminal
    /\ \E j \in Rows : /\ jobs[j].paper_id = "p2"
                       /\ jobs[j].status = "pending"
    /\ \E i, j \in Rows : /\ i < j
                          /\ jobs[i].paper_id = "p2"
                          /\ jobs[j].paper_id = "p1"

\* C29 (as claimed): when a paper row is deleted, no job, chunk, embedding or
\* annotation row of the paper is left.
C29_DeleteRemovesAll ==
    [][\A p \in DOMAIN papers \ DOMAIN papers' :
          /\ \A j \in DOMAIN jobs' : jobs'[j].paper_id # p
          /\ \A c \in chunks' : c.paper_id # p
          /\ \A a \in annotations' : a.paper_id # p
          /\ \A c \in chunks :
                c.paper_id = p => \A e \in embeddings' : e.chunk_id # c.id]_vars

\* C30: results of equal score come in the order of the candidate list (the
\* id of a candidate is its place in the list), no result has a "vector"
\* field, and the candidates passed in still hold their vectors.
C30_StableNoVector ==
    search.op = "search"
    => /\ \A i, k \in DOMAIN search.out :
             (i < k /\ search.out[i].score = search.out[k].score)
             => search.out[i].id < search.out[k].id
       /\ \A i \in DOMAIN search.out :
             /\ "vector" \notin DOMAIN search.out[i]
             /\ DOMAIN search.out[i] = {"id", "score"}
             /\ search.out[i].id \in DOMAIN search.input
       /\ \A i \in DOMAIN search.input :
             /\ search.input[i].id = i
             /\ "vector" \in DOMAIN search.input[i]
             /\ Len(search.input[i].vector) = 4 * Len(search.query_vec)

C30_Witness ==
    /\ search.op = "search"
    /\ Len(search.out) = 3
    /\ search.out[1].id = 2
    /\ search.out[2].id = 1
    /\ search.out[3].id = 3
    /\ search.out[2].score = search.out[3].score

\* C31: when an embedding pass over n > 0 chunks has ended well, it has sent
\* ceil(n / 32) batches, each of 32 texts but the last, which has 1 to 32; the
\* batches put end to end are the chunks in their order, each once; and every
\* chunk has exactly one embedding row, written by this pass, also when the
\* rows of an earlier pass were there.
C31_BatchesAndRows ==
    (pc[1] = "complete" /\ jobs[loc[1].job].type = "EMBED")
    => LET cs == get_chunks(chunks, "p1")
           n == Len(cs)
           sent == hist.sent
           batches == (n + 31) \div 32
       IN  /\ n > 0
           /\ Len(sent) = batches
           /\ \A b \in 1..(batches - 1) : Len(sent[b]) = 32
           /\ Len(sent[batches]) = n - 32 * (batches - 1)
           /\ Len(sent[batches]) \in 1..32
           /\ \A b \in 1..batches : \A k \in DOMAIN sent[b] :
                 sent[b][k] = cs[32 * (b - 1) + k].id
           /\ \A k \in 1..n :
                 {e \in embeddings : e.chunk_id = cs[k].id}
                     = {[chunk_id |-> cs[k].id, by |-> loc[1].job]}
           /\ Cardinality(embeddings) = n

C31_Witness ==
    /\ pc[1] = "complete"
    /\ loc[1].job = 2
    /\ Len(hist.sent) = 2
    /\ Len(hist.sent[1]) = 32
    /\ Len(hist.sent[2]) = 1
    /\ Cardinality(embeddings) = 33
    /\ \A e \in embeddings : e.by = 2

C34_ProgressMonotone ==
    LET ev == hist.events
    IN  \A b \in DOMAIN ev :
           ev[b].status = "completed"
           => \E a \in 1..(b - 1) :
                 /\ ev[a] = [job_id |-> ev[b].job_id, status |-> "running",
                             progress |-> 0]
                 /\ ev[b].progress = 1000
                 /\ \A k \in (a + 1)..(b - 1) :
                       /\ ev[k].status = "running"
                       /\ ev[k].job_id # ev[b].job_id
                 /\ \A k \in a..b : ev[k].progress \in 0..1000
                 /\ \A k \in a..(b - 1) : ev[k].progress <= ev[k + 1].progress
                 /\ jobs[ev[b].job_id[1]].status = "completed"

C34_Witness ==
    /\ Len(hist.events) = 15
    /\ hist.events[10] = [job_id |-> <<3>>, status |-> "running", progress |-> 0]
    /\ hist.events[11].progress = 100
    /\ hist.events[12].progress = 875
    /\ hist.events[13].progress = 900
    /\ hist.events[14].progress = 1000
    /\ hist.events[15] = [job_id |-> <<3>>, status |-> "completed",
                          progress |-> 1000]
    /\ jobs[3].type = "EMBED"

\* C35: every event the observer is given while a job is processed carries
\* the id of that job.
C35_EventsCarryJobId ==
    \A k \in DOMAIN hist.events :
       /\ hist.events[k].job_id # <<>>
       /\ hist.events[k].job_id[1] \in Range(hist.took[1])

\* C36: a job of any type whose paper has no row, or whose paper's PDF file
\* is not on disk, once it has ended, is failed with an error and with
\* started_at set, and no stage handler was entered for it: the chunks and
\* embeddings of its paper are as they were.
C36_MissingPaperOrPdf ==
    /\ \A j \in Rows :
          ( /\ jobs[j].status \in Terminal
            /\ \/ jobs[j].paper_id \notin DOMAIN papers
               \/ ~pdfs[jobs[j].paper_id].exists )
          => /\ jobs[j].status = "failed"
             /\ jobs[j].error # NULL
             /\ jobs[j].error =
                   IF jobs[j].paper_id \notin DOMAIN papers
                   THEN Some("Paper not found") ELSE Some("PDF not found")
             /\ jobs[j].started_at # NULL
             /\ jobs[j].finished_at # NULL
             /\ hist.handled[j] = 0
    /\ chunks = {OldChunk}
    /\ embeddings = {[chunk_id |-> OldChunk.id, by |-> 0]}
    /\ papers["p2"].status = "indexed"

C36_Witness ==
    /\ Len(jobs) = 2
    /\ jobs[1].type = "EMBED"
    /\ jobs[1].paper_id = "p2"
    /\ jobs[1].status = "failed"
    /\ jobs[1].error = Some("PDF not found")
    /\ jobs[2].type = "EXTRACT_DOI"
    /\ jobs[2].paper_id = "p3"
    /\ jobs[2].status = "failed"
    /\ jobs[2].error = Some("Paper not found")
    /\ jobs[2].started_at # NULL

\* C37: whenever no run_batch call is executing on a BatchProcessor its run
\* flag is false, also after a call that a store error has left; and a call
\* is answered busy only while another call is executing on its BatchProcessor.
C37_FlagClearedOnExit ==
    /\ [](\A b \in BPs :
             (\A c \in Calls : bpOf[c] = b => ~Active(c)) => ~running[b])
    /\ [][\A c \in Calls :
             (pc[c] = "idle" /\ pc'[c] = "done" /\ ret'[c] = BusyResult)
             => \E d \in Calls \ {c} : Active(d) /\ bpOf[d] = bpOf[c]]_vars

C37_Witness ==
    /\ \A c \in Calls : ~Active(c)
    /\ pc[1] = "done"
    /\ ret[1] = RaisedResult
    /\ ~running[1]
    /\ \E j \in Rows : jobs[j].status = "running"

\* C38: in every state, a pending job row has started_at, finished_at and
\* error NULL; a running row has started_at set and finished_at NULL; a
\* completed row has started_at and finished_at set and error NULL; a failed
\* row has finished_at and error set.
C38_RowShape ==
    \A j \in Rows :
       /\ jobs[j].status \in JobStatuses
       /\ jobs[j].status = "pending"
             => /\ jobs[j].started_at = NULL
                /\ jobs[j].finished_at = NULL
                /\ jobs[j].error = NULL
       /\ jobs[j].status = "running"
             => /\ jobs[j].started_at # NULL
                /\ jobs[j].finished_at = NULL
       /\ jobs[j].status = "completed"
             => /\ jobs[j].started_at # NULL
                /\ jobs[j].finished_at # NULL
                /\ jobs[j].error = NULL
       /\ jobs[j].status = "failed"
             => /\ jobs[j].finished_at # NULL
                /\ jobs[j].error # NULL

C38_Witness ==
    /\ Len(jobs) = 2
    /\ \E j, k \in Rows :
          /\ jobs[j].status = "completed"
          /\ jobs[j].started_at # NULL
          /\ jobs[k].status = "failed"
          /\ jobs[k].started_at = NULL
          /\ jobs[k].error = Some("store error")

\* C39: every result of get_batch_status has current_job set exactly when
\* its running count is at least 1.
C39_StatusConsistent ==
    (reply.op = "/batch/status" /\ reply.code = 200)
    => (reply.body.current_job # None <=> reply.body.running >= 1)

\* C40: after a /config/update request or a call of set_storage_dir, each
\* field that was given has taken effect: the storage directory is the one
\* given, with the four paths derived from it, the Gemini key is the one
\* given, and the configuration file holds the same values.
C40_ConfigTakesEffect ==
    /\ (reply.op = "/config/update" /\ reply.code = 200)
       => /\ reply.body.gemini_api_key # None
             => /\ config.gemini_api_key = reply.body.gemini_api_key[1]
                /\ config.file.gemini_api_key = reply.body.gemini_api_key[1]
          /\ (reply.body.storage_dir # None /\ reply.body.storage_dir # Some(""))
             => /\ config.storage_dir = reply.body.storage_dir[1]
                /\ config.paths = derived_paths(reply.body.storage_dir[1])
                /\ config.file.storage_dir = reply.body.storage_dir[1]
    /\ reply.op = "set_storage_dir"
       => /\ config.storage_dir = reply.path
          /\ config.paths = derived_paths(reply.path)
          /\ config.file.storage_dir = reply.path

====
